---- MODULE Spec2Model ----
(***************************************************************************)
(* Selective-disclosure credentials of the KILT prototype SDK:             *)
(* RequestForAttestation (commit, redact, verify), Attestation (store,     *)
(* revoke, verify against the ledger), AttestedClaim (verify,              *)
(* createPresentation) and the Message envelope they travel in.            *)
(*                                                                         *)
(* Digests and signatures are symbolic: a digest is the record of its      *)
(* preimage (collision resistance), a signature is the pair (signer,       *)
(* message).  An address stands for exactly one public key.                *)
(***************************************************************************)
EXTENDS Integers, Sequences, FiniteSets, TLC

VARIABLES reqs, creds, chain, nextNonce, tampers, mail, delegation, connection, pool, last

vars == <<reqs, creds, chain, nextNonce, tampers, mail, delegation, connection, pool, last>>

(* ------------------------------ bounds --------------------------------- *)
MaxSolo == 1
MaxReqs == 2
MaxCreds == 2
MaxTampers == 1
MaxKeys == 2
MaxMail == 1
MaxNodes == 3
MaxCalls == 3
MaxEpochs == 3

(* --------------------------- value universe ---------------------------- *)
Undefined == "undefined"
NoNonce == 0

Addresses == {"bob", "faucet"}
Claimer == "bob"
Attester == "faucet"
\* the owner of the delegation root
UncleSam == "alice"
Identities == Addresses \cup {UncleSam}

Str(s) == [t |-> "string", s |-> s]
Num(s) == [t |-> "number", s |-> s]

\* values a tamperer writes into claim.contents
TamperValues == { Str("12"), Num("13") }

\* property names every plain object inherits from Object.prototype
ObjectPrototypeKeys == {"toString"}

\* keys a caller may pass to removeClaimProperties ("weight" and "toString" are
\* never committed)
RemoveKeys == {"name", "age", "weight", "toString"}

DriversLicense == "DriversLicense"
CTypesOnChain == {DriversLicense}

(* ------------------------------ Crypto --------------------------------- *)
\* digest of a string
Digest(s) == [kind |-> "str", s |-> s, n |-> NoNonce, ls |-> <<>>]
\* digest of nonce + input
DigestNonce(n, s) == [kind |-> "str", s |-> s, n |-> n, ls |-> <<>>]
\* digest of the concatenation of leaves
DigestLeaves(ls) == [kind |-> "cat", s |-> "", n |-> NoNonce, ls |-> ls]
\* the bytes of a hex id used as a leaf
Bytes(id) == [kind |-> "hex", s |-> id, n |-> NoNonce, ls |-> <<>>]

\* the string hashObjectAsStr hashes for a value: a number's toString(), a
\* boolean's JSON.stringify, a string as it is
Canonical(value) == value.s

hashObjectAsStr(value, nonce) ==
  IF nonce # NoNonce THEN DigestNonce(nonce, Canonical(value))
                     ELSE Digest(Canonical(value))

hashNonceValue(nonce, value) == hashObjectAsStr(value, nonce)

generateHash(value, nonce) ==
  [nonce |-> nonce, hash |-> hashNonceValue(nonce, value)]

signStr(address, message) == [signer |-> address, msg |-> message]

\* outcomes of verify(message, signature, address); without an address there is
\* no key to decode: the library throws or reports an invalid signature
verify(message, signature, address) ==
  IF address = Undefined THEN {"throw", "false"}
  ELSE IF signature.signer = address /\ signature.msg = message
       THEN {"true"} ELSE {"false"}

(* ------------------------------ results -------------------------------- *)
Ret(v) == [t |-> "return", v |-> v, key |-> ""]
Throw(msg, key) == [t |-> "throw", v |-> msg, key |-> key]

NoReq == [none |-> TRUE]

(* ----------------------- RequestForAttestation ------------------------- *)
RECURSIVE verifyData(_)
RECURSIVE legitimationsValid(_, _)

\* the key has an entry of its own in the hash tree
TreeHas(tree, key) == \E i \in 1..Len(tree) : tree[i].k = key
\* this.claimHashTree[key] is truthy: an entry of its own, or a property the
\* plain object inherits
TreeFound(tree, key) == TreeHas(tree, key) \/ key \in ObjectPrototypeKeys
TreeAt(tree, key) == tree[CHOOSE i \in 1..Len(tree) : tree[i].k = key]
ContentsHas(contents, key) == \E i \in 1..Len(contents) : contents[i].k = key
ContentsAt(contents, key) ==
  contents[CHOOSE i \in 1..Len(contents) : contents[i].k = key].v

generateHashTree(contents, firstNonce) ==
  [i \in 1..Len(contents) |->
     [k |-> contents[i].k,
      nonce |-> firstNonce + i - 1,
      hash |-> hashNonceValue(firstNonce + i - 1, contents[i].v)]]

\* a leaf list without the owner and schema commitments
getHashLeavesOfContents(r) ==
  [i \in 1..Len(r.claimHashTree) |-> r.claimHashTree[i].hash]
  \o [i \in 1..Len(r.legitimations) |-> r.legitimations[i].attestation.claimHash]
  \o (IF r.delegationId # "" THEN <<Bytes(r.delegationId)>> ELSE <<>>)

getHashLeaves(r) ==
  <<r.claimOwner.hash, r.ctypeHash.hash>>
  \o [i \in 1..Len(r.claimHashTree) |-> r.claimHashTree[i].hash]
  \o [i \in 1..Len(r.legitimations) |-> r.legitimations[i].attestation.claimHash]
  \o (IF r.delegationId # "" THEN <<Bytes(r.delegationId)>> ELSE <<>>)

getHashRoot(leaves) == DigestLeaves(leaves)

\* a recomputation that trusts the stored root
calculateRootHashStored(r) == r.rootHash

calculateRootHash(r) ==
  LET hashes == getHashLeaves(r)
  IN  IF Len(hashes) = 1 THEN hashes[1] ELSE getHashRoot(hashes)

\* a check against the key that made the signature, whoever claim.owner is
verifyClaimerSignatureOfSigner(r) ==
  verify(r.rootHash, r.claimerSignature, r.claimerSignature.signer)

verifyClaimerSignature(r) == verify(r.rootHash, r.claimerSignature, r.claim.owner)

\* outcomes of verifySignature(): a returned boolean or the library's throw
verifySignature(r) ==
  { IF o = "throw" THEN Throw("Decoding address", "") ELSE Ret(o) :
      o \in verifyClaimerSignature(r) }

\* the first key of claim.contents (in key order) whose check throws, 0 if none
BadAttribute(r) ==
  LET c == r.claim.contents
      bad(i) == \/ ~TreeHas(r.claimHashTree, c[i].k)
                   \* an inherited property has no hash of its own
                \/ TreeAt(r.claimHashTree, c[i].k).hash #
                     hashNonceValue(TreeAt(r.claimHashTree, c[i].k).nonce, c[i].v)
  IN  IF \E i \in 1..Len(c) : bad(i)
      THEN CHOOSE i \in 1..Len(c) : bad(i) /\ \A j \in 1..(i - 1) : ~bad(j)
      ELSE 0

\* a credential check that never looks at the attestation
credVerifyDataOfRequest(c) == verifyData(c.request)

\* AttestedClaim.verifyData(): request.verifyData() && rootHash === claimHash
credVerifyData(c) ==
  { IF o.t = "return" /\ o.v = "true"
    THEN Ret(IF c.request.rootHash = c.attestation.claimHash THEN "true" ELSE "false")
    ELSE o : o \in verifyData(c.request) }

\* a request that takes its legitimations on trust
legitimationsValidUnchecked(legs, i) == {Ret("true")}

\* valid = valid && legitimation.verifyData(), from legitimation i on
legitimationsValid(legs, i) ==
  IF i > Len(legs) THEN {Ret("true")}
  ELSE UNION { IF o.t = "return" /\ o.v = "true"
               THEN legitimationsValid(legs, i + 1)
               ELSE {o} : o \in credVerifyData(legs[i]) }

\* a verification that looks at the claimer signature before anything else
verifyDataSignatureFirst(r) ==
  IF verifySignature(r) # {Ret("true")} THEN verifySignature(r) \ {Ret("true")}
  ELSE IF r.rootHash # calculateRootHash(r) THEN {Ret("false")}
  ELSE IF r.claim.owner # Undefined
          /\ r.claimOwner.hash # hashNonceValue(r.claimOwner.nonce, Str(r.claim.owner))
  THEN {Throw("Invalid hash for claim owner", "")}
  ELSE IF r.ctypeHash.hash # hashNonceValue(r.ctypeHash.nonce, Str(r.claim.cTypeHash))
  THEN {Throw("Invalid hash for CTYPE", "")}
  ELSE IF BadAttribute(r) # 0
  THEN LET key == r.claim.contents[BadAttribute(r)].k
       IN  IF ~TreeFound(r.claimHashTree, key)
           THEN {Throw("Property not in claim hash tree", key)}
           ELSE {Throw("Invalid hash for property in claim hash tree", key)}
  ELSE legitimationsValid(r.legitimations, 1)

verifyData(r) ==
  IF r.rootHash # calculateRootHash(r) THEN {Ret("false")}
  ELSE IF r.claim.owner # Undefined
          /\ r.claimOwner.hash # hashNonceValue(r.claimOwner.nonce, Str(r.claim.owner))
  THEN {Throw("Invalid hash for claim owner", "")}
  ELSE IF r.ctypeHash.hash # hashNonceValue(r.ctypeHash.nonce, Str(r.claim.cTypeHash))
  THEN {Throw("Invalid hash for CTYPE", "")}
  ELSE IF BadAttribute(r) # 0
  THEN LET key == r.claim.contents[BadAttribute(r)].k
       IN  IF ~TreeFound(r.claimHashTree, key)
           THEN {Throw("Property not in claim hash tree", key)}
           ELSE {Throw("Invalid hash for property in claim hash tree", key)}
  ELSE UNION { IF o.t = "return" /\ o.v = "true" THEN verifySignature(r) ELSE {o} :
                 o \in legitimationsValid(r.legitimations, 1) }

\* the constructor with an identity: calculateRootHash(), then sign(identity)
NewRequest(claim, legitimations, delegationId, identity, firstNonce) ==
  LET unsigned ==
        [claim |-> claim,
         claimOwner |-> generateHash(Str(claim.owner), firstNonce),
         ctypeHash |-> generateHash(Str(claim.cTypeHash), firstNonce + 1),
         claimHashTree |-> generateHashTree(claim.contents, firstNonce + 2),
         legitimations |-> legitimations,
         delegationId |-> delegationId,
         rootHash |-> Digest(""),
         claimerSignature |-> signStr(identity, Digest(""))]
      root == calculateRootHash(unsigned)
  IN  [unsigned EXCEPT !.rootHash = root,
                       !.claimerSignature = signStr(identity, root)]

Op(op, ref, arg, pre, res) ==
  [op |-> op, ref |-> ref, arg |-> arg, pre |-> pre, res |-> res, queried |-> FALSE]

\* a build that signs for whatever owner the claim names
OwnerIsIdentityUnchecked(claim, identity) == TRUE

\* claim.owner !== identity.address is false
OwnerIsIdentity(claim, identity) == claim.owner = identity

\* a build by op: the owner check with its error message, then the commitments
\* (fresh nonces), the root and the signature
BuildRequest(op, message, claim, identity, legitimations, delegationId) ==
  /\ IF ~OwnerIsIdentity(claim, identity)
     THEN /\ last' = Op(op, 0, [owner |-> claim.owner, identity |-> identity], NoReq,
                        Throw(message, ""))
          /\ UNCHANGED <<pool, connection, delegation, mail, reqs, nextNonce>>
     ELSE /\ reqs' = Append(reqs,
               NewRequest(claim, legitimations, delegationId, identity, nextNonce))
          /\ nextNonce' = nextNonce + 2 + Len(claim.contents)
          /\ last' = Op(op, Len(reqs) + 1, [owner |-> claim.owner, identity |-> identity],
                        NoReq, Ret("void"))
  /\ UNCHANGED <<pool, connection, delegation, mail, creds, chain, tampers>>

fromClaimAndIdentity(contents, cType, owner, identity, legitimations, delegationId) ==
  BuildRequest("fromClaimAndIdentity", "Claim owner is not Identity",
               [cTypeHash |-> cType, contents |-> contents, owner |-> owner],
               identity, legitimations, delegationId)

\* new RequestForAttestation(claim, legitimations, claimOwner, ctypeHash,
\* claimHashTree, identity), the commitments being ones the caller generated
newRequestForAttestation(contents, cType, owner, identity, legitimations, delegationId) ==
  BuildRequest("new RequestForAttestation", "Claim owner is not identity",
               [cTypeHash |-> cType, contents |-> contents, owner |-> owner],
               identity, legitimations, delegationId)

\* a redaction that deletes the whole hash-tree entry instead of its nonce
RemovePropsDropEntry(r, keys, n) ==
  LET removed == {keys[i] : i \in 1..n}
  IN  [r EXCEPT
         !.claim.contents = SelectSeq(@, LAMBDA e : e.k \notin removed),
         !.claimHashTree = SelectSeq(@, LAMBDA e : e.k \notin removed)]

\* the state of the request after forEach ran over keys[1..n] without throwing
RemoveProps(r, keys, n) ==
  LET removed == {keys[i] : i \in 1..n}
  IN  [r EXCEPT
         !.claim.contents = SelectSeq(@, LAMBDA e : e.k \notin removed),
         !.claimHashTree = [i \in 1..Len(@) |->
            IF @[i].k \in removed THEN [@[i] EXCEPT !.nonce = NoNonce] ELSE @[i]]]

\* a redaction that looks the key up in claim.contents instead of the hash tree
FirstMissingInContents(r, keys) ==
  IF \E i \in 1..Len(keys) : ~ContentsHas(r.claim.contents, keys[i])
  THEN CHOOSE i \in 1..Len(keys) :
         /\ ~ContentsHas(r.claim.contents, keys[i])
         /\ \A j \in 1..(i - 1) : ContentsHas(r.claim.contents, keys[j])
  ELSE 0

\* index of the first key the forEach throws on, 0 if it runs to the end
FirstMissing(r, keys) ==
  IF \E i \in 1..Len(keys) : ~TreeFound(r.claimHashTree, keys[i])
  THEN CHOOSE i \in 1..Len(keys) :
         /\ ~TreeFound(r.claimHashTree, keys[i])
         /\ \A j \in 1..(i - 1) : TreeFound(r.claimHashTree, keys[j])
  ELSE 0

\* a redaction that changes nothing when it throws
removeClaimPropertiesOnRolledBack(r, keys) ==
  IF FirstMissing(r, keys) = 0 THEN RemoveProps(r, keys, Len(keys)) ELSE r

removeClaimPropertiesOn(r, keys) ==
  IF FirstMissing(r, keys) = 0 THEN RemoveProps(r, keys, Len(keys))
  ELSE RemoveProps(r, keys, FirstMissing(r, keys) - 1)

removeClaimPropertiesRes(r, keys) ==
  IF FirstMissing(r, keys) = 0 THEN Ret("void")
  ELSE Throw("Property not found in claim", keys[FirstMissing(r, keys)])

removeClaimOwnerOn(r) ==
  [r EXCEPT !.claim.owner = Undefined, !.claimOwner.nonce = NoNonce]

KeyLists == UNION {[1..n -> RemoveKeys] : n \in 0..MaxKeys}

removeClaimProperties(ref, keys) ==
  /\ ref \in 1..Len(reqs)
  /\ reqs' = [reqs EXCEPT ![ref] = removeClaimPropertiesOn(reqs[ref], keys)]
  /\ last' = Op("removeClaimProperties", ref, keys, reqs[ref],
                removeClaimPropertiesRes(reqs[ref], keys))
  /\ UNCHANGED <<pool, connection, delegation, mail, creds, chain, nextNonce, tampers>>

removeClaimOwner(ref) ==
  /\ ref \in 1..Len(reqs)
  /\ reqs' = [reqs EXCEPT ![ref] = removeClaimOwnerOn(reqs[ref])]
  /\ last' = Op("removeClaimOwner", ref, <<>>, reqs[ref], Ret("void"))
  /\ UNCHANGED <<pool, connection, delegation, mail, creds, chain, nextNonce, tampers>>

requestVerifyData(ref) ==
  /\ ref \in 1..Len(reqs)
  /\ \E o \in verifyData(reqs[ref]) :
       last' = Op("verifyData", ref, <<>>, reqs[ref], o)
  /\ UNCHANGED <<pool, connection, delegation, mail, reqs, creds, chain, nextNonce, tampers>>

requestVerifySignature(ref) ==
  /\ ref \in 1..Len(reqs)
  /\ \E o \in verifySignature(reqs[ref]) :
       last' = Op("verifySignature", ref, <<>>, reqs[ref], o)
  /\ UNCHANGED <<pool, connection, delegation, mail, reqs, creds, chain, nextNonce, tampers>>

\* claim, claimOwner, claimHashTree, ... are public fields: anyone holding the
\* object may assign to them
TamperValue(ref, key, value) ==
  /\ ref \in 1..Len(reqs)
  /\ tampers < MaxTampers
  /\ ContentsHas(reqs[ref].claim.contents, key)
  /\ ContentsAt(reqs[ref].claim.contents, key) # value
  /\ reqs' = [reqs EXCEPT ![ref].claim.contents =
                [i \in 1..Len(@) |-> IF @[i].k = key THEN [@[i] EXCEPT !.v = value]
                                                    ELSE @[i]]]
  /\ tampers' = tampers + 1
  /\ last' = Op("TamperValue", ref, key, reqs[ref], Ret("void"))
  /\ UNCHANGED <<pool, connection, delegation, mail, creds, chain, nextNonce>>

\* the NonceHash of an attribute is rewritten to commit to another value
TamperHash(ref, key, value) ==
  /\ ref \in 1..Len(reqs)
  /\ TreeHas(reqs[ref].claimHashTree, key)
  /\ TreeAt(reqs[ref].claimHashTree, key).hash #
       hashNonceValue(TreeAt(reqs[ref].claimHashTree, key).nonce, value)
  /\ LET tree == reqs[ref].claimHashTree
     IN  reqs' = [reqs EXCEPT ![ref].claimHashTree =
                    [i \in 1..Len(tree) |->
                       IF tree[i].k = key
                       THEN [tree[i] EXCEPT !.hash = hashNonceValue(tree[i].nonce, value)]
                       ELSE tree[i]]]
  /\ last' = Op("TamperHash", ref, key, reqs[ref], Ret("void"))
  /\ UNCHANGED <<pool, connection, delegation, mail, creds, chain, nextNonce, tampers>>

\* the request inside a legitimation gets another rootHash
TamperLegitimation(ref, j, rootHash) ==
  /\ ref \in 1..Len(reqs)
  /\ tampers < MaxTampers
  /\ j \in 1..Len(reqs[ref].legitimations)
  /\ reqs[ref].legitimations[j].request.rootHash # rootHash
  /\ reqs' = [reqs EXCEPT ![ref].legitimations[j].request.rootHash = rootHash]
  /\ tampers' = tampers + 1
  /\ last' = Op("TamperLegitimation", ref, j, reqs[ref], Ret("void"))
  /\ UNCHANGED <<pool, connection, delegation, mail, creds, chain, nextNonce>>

TamperOwner(ref, address) ==
  /\ ref \in 1..Len(reqs)
  /\ tampers < MaxTampers
  /\ reqs[ref].claim.owner \notin {Undefined, address}
  /\ reqs' = [reqs EXCEPT ![ref].claim.owner = address]
  /\ tampers' = tampers + 1
  /\ last' = Op("TamperOwner", ref, address, reqs[ref], Ret("void"))
  /\ UNCHANGED <<pool, connection, delegation, mail, creds, chain, nextNonce>>

\* the error of the deserializing constructor for an input that lacks one of
\* claim, legitimations, claimOwner, claimerSignature, claimHashTree, cTypeHash,
\* rootHash, privacyEnhanced
PropertyNotProvided(missing) ==
  Throw("Property Not Provided while building RequestForAttestation",
        CHOOSE field \in missing : TRUE)

RECURSIVE fromRequestRes(_, _)
\* a deserialization that refuses an input its own checks report as false
fromRequestResChecked(input, missing) ==
  IF missing # {} THEN {PropertyNotProvided(missing)}
  ELSE {IF o = Ret("true") THEN Ret(input)
        ELSE IF o.t = "throw" THEN o
        ELSE Throw("Invalid request for attestation", "") : o \in verifyData(input)}

\* new RequestForAttestation(input) / fromRequest(input), missing being the
\* required fields the input lacks: the legitimations are deserialized, then
\* verifySignature() and verifyData() are called and only their throws count
fromRequestRes(input, missing) ==
  IF missing # {} THEN {PropertyNotProvided(missing)}
  ELSE LET legitimations ==
             UNION {fromRequestRes(input.legitimations[i].request, {}) :
                      i \in 1..Len(input.legitimations)}
           thrown(outcomes) == {o \in outcomes : o.t = "throw"}
           returned(outcomes) == {o \in outcomes : o.t = "return"}
       IN  IF thrown(legitimations) # {} /\ returned(legitimations) = {}
           THEN thrown(legitimations)
           ELSE thrown(legitimations)
                \cup thrown(verifySignature(input))
                \cup (IF returned(verifySignature(input)) # {}
                      THEN thrown(verifyData(input))
                           \cup (IF returned(verifyData(input)) # {}
                                 THEN {Ret(input)} ELSE {})
                      ELSE {})

fromRequest(ref, missing) ==
  /\ ref \in 1..Len(reqs)
  /\ \E o \in fromRequestRes(reqs[ref], missing) :
       last' = Op("fromRequest", ref, missing, reqs[ref], o)
  /\ UNCHANGED <<pool, reqs, creds, chain, nextNonce, tampers, mail, delegation, connection>>

\* assignments to the public fields that leave the commitments alone
SetOwner(ref, address) ==
  /\ ref \in 1..Len(reqs)
  /\ reqs[ref].claim.owner \notin {Undefined, address}
  /\ reqs' = [reqs EXCEPT ![ref].claim.owner = address]
  /\ last' = Op("SetOwner", ref, address, reqs[ref], Ret("void"))
  /\ UNCHANGED <<pool, connection, delegation, mail, creds, chain, nextNonce, tampers>>

SetCTypeHash(ref, cTypeHash) ==
  /\ ref \in 1..Len(reqs)
  /\ reqs[ref].claim.cTypeHash # cTypeHash
  /\ reqs' = [reqs EXCEPT ![ref].claim.cTypeHash = cTypeHash]
  /\ last' = Op("SetCTypeHash", ref, cTypeHash, reqs[ref], Ret("void"))
  /\ UNCHANGED <<pool, connection, delegation, mail, creds, chain, nextNonce, tampers>>

\* the root signed by someone else
SetClaimerSignature(ref, signer) ==
  /\ ref \in 1..Len(reqs)
  /\ reqs[ref].claimerSignature # signStr(signer, reqs[ref].rootHash)
  /\ reqs' = [reqs EXCEPT ![ref].claimerSignature = signStr(signer, reqs[ref].rootHash)]
  /\ last' = Op("SetClaimerSignature", ref, signer, reqs[ref], Ret("void"))
  /\ UNCHANGED <<pool, connection, delegation, mail, creds, chain, nextNonce, tampers>>

\* claim.contents[key] = value for a key the contents do not hold: the key
\* comes last in the key order
AddAttribute(ref, key, value) ==
  /\ ref \in 1..Len(reqs)
  /\ ~ContentsHas(reqs[ref].claim.contents, key)
  /\ reqs' = [reqs EXCEPT ![ref].claim.contents = Append(@, [k |-> key, v |-> value])]
  /\ last' = Op("AddAttribute", ref, key, reqs[ref], Ret("void"))
  /\ UNCHANGED <<pool, connection, delegation, mail, creds, chain, nextNonce, tampers>>

(* ------------------------- Attestation and ledger ---------------------- *)
\* new Attestation(requestForAttestation, attester)
NewAttestation(r, attester) ==
  [claimHash |-> r.rootHash,
   cTypeHash |-> r.claim.cTypeHash,
   owner |-> attester,
   delegationId |-> r.delegationId,
   revoked |-> FALSE]

NoAttestation == [none |-> TRUE]

\* the ledger's map claimHash -> (cTypeHash, owner, delegationId, revoked)
OnChain(claimHash) == \E a \in chain : a.claimHash = claimHash
query(claimHash) ==
  IF OnChain(claimHash) THEN CHOOSE a \in chain : a.claimHash = claimHash
  ELSE NoAttestation

\* the delegation nodes the ledger holds: a root of UncleSam and, under it, a
\* node that delegates attestation rights to the attester
DelegationsOnChain ==
  { [id |-> "0x00", parentId |-> "", account |-> UncleSam],
    [id |-> "0x01", parentId |-> "0x00", account |-> Attester] }

DelegationIds == {d.id : d \in DelegationsOnChain}
DelegationNode(id) == CHOOSE d \in DelegationsOnChain : d.id = id

\* the accounts of the delegation node id and of the nodes above it
RECURSIVE AncestorOwners(_)
AncestorOwners(id) ==
  IF id \notin DelegationIds THEN {}
  ELSE {DelegationNode(id).account} \cup AncestorOwners(DelegationNode(id).parentId)

\* a ledger that accepts an attestation for a claimHash it already holds
ChainAddResNoDuplicateCheck(att, identity) ==
  IF att.cTypeHash \notin CTypesOnChain THEN Throw("CTYPE not found", "")
  ELSE IF att.delegationId # "" /\ att.delegationId \notin DelegationIds
  THEN Throw("delegation not found", "")
  ELSE Ret("Finalized")

\* outcome of the ledger's attestation.add for a transaction signed by identity
ChainAddRes(att, identity) ==
  IF att.cTypeHash \notin CTypesOnChain THEN Throw("CTYPE not found", "")
  ELSE IF att.delegationId # "" /\ att.delegationId \notin DelegationIds
  THEN Throw("delegation not found", "")
  ELSE IF OnChain(att.claimHash) THEN Throw("already attested", "")
  ELSE Ret("Finalized")

\* a ledger whose add replaces the record it already holds
ChainAddOverwrite(att, identity) ==
  {a \in chain : a.claimHash # att.claimHash}
    \cup {[att EXCEPT !.owner = identity, !.revoked = FALSE]}

ChainAdd(att, identity) ==
  IF ChainAddRes(att, identity).t = "return"
  THEN chain \cup {[att EXCEPT !.owner = identity, !.revoked = FALSE]}
  ELSE chain

\* a ledger on which only the owner of an attestation may revoke it
ChainRevokeResOwnerOnly(claimHash, identity) ==
  IF ~OnChain(claimHash) THEN Throw("attestation not found", "")
  ELSE IF query(claimHash).owner # identity THEN Throw("not permitted", "")
  ELSE Ret("Finalized")

\* outcome of the ledger's attestation.revoke for a transaction signed by identity
ChainRevokeRes(claimHash, identity) ==
  IF ~OnChain(claimHash) THEN Throw("attestation not found", "")
  ELSE IF /\ query(claimHash).owner # identity
          /\ identity \notin AncestorOwners(query(claimHash).delegationId)
  THEN Throw("not permitted", "")
  ELSE Ret("Finalized")

ChainRevoke(claimHash, identity) ==
  IF ChainRevokeRes(claimHash, identity).t = "return"
  THEN {IF a.claimHash = claimHash THEN [a EXCEPT !.revoked = TRUE] ELSE a : a \in chain}
  ELSE chain

\* Attestation.store(identity), for the attestation of request ref by attester
store(ref, attester, identity) ==
  /\ ref \in 1..Len(reqs)
  /\ LET att == NewAttestation(reqs[ref], attester)
     IN  /\ chain' = ChainAdd(att, identity)
         /\ last' = Op("store", ref, att, NoReq, ChainAddRes(att, identity))
  /\ UNCHANGED <<pool, connection, delegation, mail, reqs, creds, nextNonce, tampers>>

KnownHashes == {reqs[i].rootHash : i \in 1..Len(reqs)}

revoke(claimHash, identity) ==
  /\ chain' = ChainRevoke(claimHash, identity)
  /\ last' = Op("revoke", 0, [claimHash |-> claimHash, identity |-> identity], NoReq,
                ChainRevokeRes(claimHash, identity))
  /\ UNCHANGED <<pool, connection, delegation, mail, reqs, creds, nextNonce, tampers>>

\* a validity check that forgets the revoked flag
isAttestationValidIgnoringRevoked(this, attestation) ==
  /\ attestation # NoAttestation
  /\ attestation.owner = this.owner

isAttestationValid(this, attestation) ==
  /\ attestation # NoAttestation
  /\ attestation.owner = this.owner
  /\ ~attestation.revoked

\* a check of the record of this attestation, whatever claimHash was asked for
attestationVerifyOwnHash(this, claimHash) ==
  IF isAttestationValid(this, query(this.claimHash)) THEN Ret("true") ELSE Ret("false")

\* Attestation.verify(claimHash)
attestationVerifyHash(this, claimHash) ==
  IF isAttestationValid(this, query(claimHash)) THEN Ret("true") ELSE Ret("false")

\* Attestation.verify(), claimHash defaulting to this.claimHash
attestationVerify(this) == attestationVerifyHash(this, this.claimHash)

(* ------------------------------ AttestedClaim -------------------------- *)
CredValue(c) == [request |-> reqs[c.request], attestation |-> c.attestation]

\* new AttestedClaim(request, attestation): the attestation is the one built
\* for request attRef by attester
newAttestedClaim(ref, attRef, attester) ==
  /\ ref \in 1..Len(reqs)
  /\ attRef \in 1..Len(reqs)
  /\ Len(creds) < MaxCreds
  /\ creds' = Append(creds, [request |-> ref,
                             attestation |-> NewAttestation(reqs[attRef], attester)])
  /\ last' = Op("newAttestedClaim", ref, attRef, NoReq, Ret("void"))
  /\ UNCHANGED <<pool, connection, delegation, mail, reqs, chain, nextNonce, tampers>>

attestedClaimVerifyData(c) ==
  /\ c \in 1..Len(creds)
  /\ \E o \in credVerifyData(CredValue(creds[c])) :
       last' = Op("AttestedClaim.verifyData", c, <<>>, NoReq, o)
  /\ UNCHANGED <<pool, connection, delegation, mail, reqs, creds, chain, nextNonce, tampers>>

\* whether verify() goes on to attestation.verify() after verifyData() gave o:
\* the result of Promise.resolve(false) is dropped, only a throw ends the call
ReachesLedger(o) == o.t = "return"

attestedClaimVerify(c) ==
  /\ c \in 1..Len(creds)
  /\ \E o \in credVerifyData(CredValue(creds[c])) :
       last' = IF ReachesLedger(o)
               THEN [Op("AttestedClaim.verify", c, o, NoReq,
                        attestationVerify(creds[c].attestation))
                       EXCEPT !.queried = TRUE]
               ELSE Op("AttestedClaim.verify", c, o, NoReq,
                       IF o.t = "throw" THEN o ELSE Ret("false"))
  /\ UNCHANGED <<pool, connection, delegation, mail, reqs, creds, chain, nextNonce, tampers>>

\* attestation.verify(claimHash) on the attestation of credential c
verifyAttestation(c, claimHash) ==
  /\ c \in 1..Len(creds)
  /\ last' = Op("Attestation.verify", c, claimHash, NoReq,
                attestationVerifyHash(creds[c].attestation, claimHash))
  /\ UNCHANGED <<pool, connection, delegation, mail, reqs, creds, chain, nextNonce, tampers>>

\* a presentation that redacts this.request itself
cloneDeepAlias(ref) == ref

\* the request object the presentation redacts: a deep copy of this.request
cloneDeep(ref) == Len(reqs) + 1

createPresentation(c, excludedClaimProperties, excludeIdentity) ==
  /\ c \in 1..Len(creds)
  /\ LET src == creds[c].request
         target == cloneDeep(src)
         removed == removeClaimPropertiesOn(reqs[src], excludedClaimProperties)
         res == removeClaimPropertiesRes(reqs[src], excludedClaimProperties)
         result == IF res.t = "return" /\ excludeIdentity
                   THEN removeClaimOwnerOn(removed) ELSE removed
         heap == [i \in 1..(IF target > Len(reqs) THEN target ELSE Len(reqs)) |->
                    IF i = target THEN result ELSE reqs[i]]
     IN  IF res.t = "throw"
         THEN /\ reqs' = SubSeq(heap, 1, Len(reqs))
              /\ creds' = creds
              /\ last' = Op("createPresentation", c, excludedClaimProperties,
                            reqs[src], res)
         ELSE /\ Len(heap) <= MaxReqs
              /\ Len(creds) < MaxCreds
              /\ reqs' = heap
              /\ creds' = Append(creds, [request |-> target,
                                         attestation |-> creds[c].attestation])
              /\ last' = Op("createPresentation", c, excludedClaimProperties,
                            reqs[src], res)
  /\ UNCHANGED <<pool, connection, delegation, mail, chain, nextNonce, tampers>>

(* ------------------------------- Messaging ----------------------------- *)
MessageBodyType ==
  [REQUEST_TERMS |-> "request-terms",
   REQUEST_ATTESTATION_FOR_CLAIM |-> "request-attestation-for-claim",
   SUBMIT_ATTESTATION_FOR_CLAIM |-> "submit-attestation-for-claim",
   SUBMIT_CLAIMS_FOR_CTYPES |-> "submit-claims-for-ctypes",
   SUBMIT_CLAIMS_FOR_CTYPES_PE |-> "submit-claims-for-ctypes-pe"]

\* message bodies, as far as ensureOwnerIsSender reads them
RequestAttestationBody(owner) ==
  [type |-> MessageBodyType.REQUEST_ATTESTATION_FOR_CLAIM,
   content |-> [requestForAttestation |-> [claim |-> [owner |-> owner]]]]
SubmitAttestationBody(owner) ==
  [type |-> MessageBodyType.SUBMIT_ATTESTATION_FOR_CLAIM,
   content |-> [attestation |-> [owner |-> owner]]]
SubmitClaimsBody(owners) ==
  [type |-> MessageBodyType.SUBMIT_CLAIMS_FOR_CTYPES,
   content |-> [i \in 1..Len(owners) |-> [request |-> [claim |-> [owner |-> owners[i]]]]]]
OtherBody(type) == [type |-> type, content |-> <<>>]

\* claim.owner of a credential whose identity was excluded is undefined
Owners == Addresses \cup {Undefined}

MessageBodies ==
  {RequestAttestationBody(o) : o \in Owners}
  \cup {SubmitAttestationBody(o) : o \in Addresses}
  \cup {SubmitClaimsBody(os) : os \in UNION {[1..n -> Owners] : n \in 0..MaxKeys}}
  \cup {OtherBody(MessageBodyType.REQUEST_TERMS),
        OtherBody(MessageBodyType.SUBMIT_CLAIMS_FOR_CTYPES_PE)}

\* a sender check that looks at the first credential only
FirstClaimOwnedBy(content, senderAddress) ==
  Len(content) > 0 => content[1].request.claim.owner = senderAddress

\* the forEach over the credentials finds no claim.owner !== senderAddress
ClaimsOwnedBy(content, senderAddress) ==
  \A i \in 1..Len(content) : content[i].request.claim.owner = senderAddress

ensureOwnerIsSender(message) ==
  LET body == message.body
  IN  IF body.type = MessageBodyType.REQUEST_ATTESTATION_FOR_CLAIM
      THEN IF body.content.requestForAttestation.claim.owner # message.senderAddress
           THEN Throw("Sender is not owner of the claim", "") ELSE Ret("void")
      ELSE IF body.type = MessageBodyType.SUBMIT_ATTESTATION_FOR_CLAIM
      THEN IF body.content.attestation.owner # message.senderAddress
           THEN Throw("Sender is not owner of the attestation", "") ELSE Ret("void")
      ELSE IF body.type = MessageBodyType.SUBMIT_CLAIMS_FOR_CTYPES
      THEN IF ~ClaimsOwnedBy(body.content, message.senderAddress)
           THEN Throw("Sender is not owner of the claims", "") ELSE Ret("void")
      ELSE Ret("void")

\* JSON.stringify(body) and the texts that are not JSON: '{ wrong JSON' and ''
NoBody == OtherBody("")
JSONstringify(body) == [kind |-> "json", body |-> body]
WrongJSON == [kind |-> "wrong", body |-> NoBody]
EmptyText == [kind |-> "empty", body |-> NoBody]
\* decryption returned false
NoText == [kind |-> "false", body |-> NoBody]
JSONparse(text) ==
  IF text.kind = "json" THEN [t |-> "return", v |-> text.body, key |-> ""]
  ELSE Throw("Unexpected token", "")

\* the box key pair of an identity, and the key nacl.box derives from one
\* party's secret key and the other's public key
BoxKey(address) == [boxKeyOf |-> address]
SharedKey(publicKey, secretKeyOf) == {publicKey.boxKeyOf, secretKeyOf}

encryptAsymmetricAsStr(message, publicKeyA, secretKeyB, nonce) ==
  [box |-> [plain |-> message, key |-> SharedKey(publicKeyA, secretKeyB), nonce |-> nonce],
   nonce |-> nonce]

decryptAsymmetricAsStr(data, publicKeyB, secretKeyA) ==
  IF data.box.key = SharedKey(publicKeyB, secretKeyA) /\ data.box.nonce = data.nonce
  THEN data.box.plain ELSE NoText

\* hashStr(message + nonce + createdAt)
MessageHash(message, nonce, createdAt) ==
  [kind |-> "msg", message |-> message, nonce |-> nonce, createdAt |-> createdAt]

\* what a tamperer writes: '1234' for the box, '0x00000000' for the hash
WrongBox == [plain |-> NoText, key |-> {}, nonce |-> NoNonce]
WrongHash == MessageHash(WrongBox, NoNonce, 0)

\* the envelope of text, encrypted, hashed and signed by sender at time now
Encrypted(text, sender, receiver, now) ==
  LET encryptedMessage == encryptAsymmetricAsStr(text, BoxKey(receiver), sender, now)
      hash == MessageHash(encryptedMessage.box, encryptedMessage.nonce, now)
  IN  [message |-> encryptedMessage.box,
       nonce |-> encryptedMessage.nonce,
       createdAt |-> now,
       hash |-> hash,
       signature |-> signStr(sender, hash),
       receiverAddress |-> receiver,
       senderAddress |-> sender,
       senderBoxPublicKey |-> BoxKey(sender)]

\* a receiver that trusts whatever hash and signature the envelope carries
ensureHashAndSignatureSkipped(encrypted, senderAddress) == Ret("void")

ensureHashAndSignature(encrypted, senderAddress) ==
  LET hash == MessageHash(encrypted.message, encrypted.nonce, encrypted.createdAt)
  IN  IF hash # encrypted.hash THEN Throw("Hash of message not correct", "")
      ELSE IF "true" \notin verify(hash, encrypted.signature, senderAddress)
      THEN Throw("Signature of message not correct", "")
      ELSE Ret("void")

\* the outcome of createFromEncryptedMessage and the calls it made on the way
createFromEncryptedMessage(encrypted, receiver) ==
  LET checked == ensureHashAndSignature(encrypted, encrypted.senderAddress)
      ea == [box |-> encrypted.message, nonce |-> encrypted.nonce]
      decoded == decryptAsymmetricAsStr(ea, encrypted.senderBoxPublicKey, receiver)
      messageBody == JSONparse(decoded)
  IN  IF checked.t = "throw"
      THEN [res |-> checked, calls |-> <<"ensureHashAndSignature">>]
      ELSE IF decoded.kind \in {"false", "empty"}
      THEN [res |-> Throw("Error decoding message", ""),
            calls |-> <<"ensureHashAndSignature", "decryptAsymmetricAsStr">>]
      ELSE IF messageBody.t = "throw"
      THEN [res |-> Throw("Error parsing message body", ""),
            calls |-> <<"ensureHashAndSignature", "decryptAsymmetricAsStr", "JSON.parse">>]
      ELSE [res |-> [t |-> "return",
                     v |-> [body |-> messageBody.v,
                            createdAt |-> encrypted.createdAt,
                            receiverAddress |-> encrypted.receiverAddress,
                            senderAddress |-> encrypted.senderAddress,
                            senderBoxPublicKey |-> encrypted.senderBoxPublicKey],
                     key |-> ""],
            calls |-> <<"ensureHashAndSignature", "decryptAsymmetricAsStr", "JSON.parse">>]

\* new Message(body, sender, receiver).getEncryptedMessage(), put on the wire
newMessage(body, sender, receiver) ==
  /\ Len(mail) < MaxMail
  /\ sender # receiver
  /\ mail' = Append(mail, Encrypted(JSONstringify(body), sender, receiver, nextNonce))
  /\ nextNonce' = nextNonce + 1
  /\ last' = Op("new Message", Len(mail) + 1, body, NoReq, Ret("void"))
  /\ UNCHANGED <<pool, connection, delegation, reqs, creds, chain, tampers>>

\* an envelope a sender made by hand around a text that is no message body
sendText(text, sender, receiver) ==
  /\ Len(mail) < MaxMail
  /\ sender # receiver
  /\ mail' = Append(mail, Encrypted(text, sender, receiver, nextNonce))
  /\ nextNonce' = nextNonce + 1
  /\ last' = Op("sendText", Len(mail) + 1, text, NoReq, Ret("void"))
  /\ UNCHANGED <<pool, connection, delegation, reqs, creds, chain, tampers>>

\* the envelopes that differ from encrypted in one field
Tampered(encrypted) ==
  ({[encrypted EXCEPT !.hash = WrongHash],
    [encrypted EXCEPT !.message = WrongBox],
    [encrypted EXCEPT !.nonce = NoNonce],
    [encrypted EXCEPT !.createdAt = 0]}
   \cup {[encrypted EXCEPT !.signature = signStr(a, encrypted.hash)] : a \in Addresses}
   \cup {[encrypted EXCEPT !.senderAddress = a] : a \in Addresses}
   \cup {[encrypted EXCEPT !.senderBoxPublicKey = BoxKey(a)] : a \in Addresses})
  \ {encrypted}

\* an envelope is changed on the wire
TamperMail(i) ==
  /\ i \in 1..Len(mail)
  /\ tampers < MaxTampers
  /\ \E encrypted \in Tampered(mail[i]) : mail' = [mail EXCEPT ![i] = encrypted]
  /\ tampers' = tampers + 1
  /\ last' = Op("TamperMail", i, <<>>, NoReq, Ret("void"))
  /\ UNCHANGED <<pool, connection, delegation, reqs, creds, chain, nextNonce>>

\* signer recomputes the hash of the envelope as it is and signs it
Resign(i, signer) ==
  /\ i \in 1..Len(mail)
  /\ LET hash == MessageHash(mail[i].message, mail[i].nonce, mail[i].createdAt)
         encrypted == [mail[i] EXCEPT !.hash = hash, !.signature = signStr(signer, hash)]
     IN  /\ encrypted # mail[i]
         /\ mail' = [mail EXCEPT ![i] = encrypted]
  /\ last' = Op("Resign", i, signer, NoReq, Ret("void"))
  /\ UNCHANGED <<pool, connection, delegation, reqs, creds, chain, nextNonce, tampers>>

\* Message.createFromEncryptedMessage(mail[i], receiver)
receive(i, receiver) ==
  /\ i \in 1..Len(mail)
  /\ LET run == createFromEncryptedMessage(mail[i], receiver)
     IN  last' = Op("createFromEncryptedMessage", i, run.calls, mail[i], run.res)
  /\ UNCHANGED <<pool, connection, delegation, reqs, creds, chain, nextNonce, tampers, mail>>

\* Message.ensureOwnerIsSender(message)
messageEnsureOwnerIsSender(body, senderAddress) ==
  /\ last' = Op("ensureOwnerIsSender", 0, [body |-> body, senderAddress |-> senderAddress],
                NoReq, ensureOwnerIsSender([body |-> body, senderAddress |-> senderAddress]))
  /\ UNCHANGED <<pool, connection, delegation, reqs, creds, chain, nextNonce, tampers, mail>>

(* ---------------------------- Attester actor --------------------------- *)
\* pool.txs: the transactions handed to Blockchain.signAndSubmitTx that the
\* ledger has not yet included; pool.handles: the revocation handles
\* issueAttestation has returned
ERROR_NOT_FOUND == Throw("ERROR_NOT_FOUND", "Attestation not on chain")

\* issueAttestation(attester, message, claimer), the message body being of
\* type and holding request ref: signAndSubmitTx is called and not awaited
issueAttestation(type, ref, attester) ==
  /\ ref \in 1..Len(reqs)
  /\ IF type # MessageBodyType.REQUEST_ATTESTATION_FOR_CLAIM
     THEN /\ pool' = pool
          /\ last' = Op("issueAttestation", ref, attester, NoReq,
                      Throw("ERROR_MESSAGE_TYPE", ""))
     ELSE LET attestation == NewAttestation(reqs[ref], attester)
              tx == [call |-> "add", attestation |-> attestation, signer |-> attester]
              revocationHandle == [claimHash |-> attestation.claimHash]
          IN  /\ pool' = [pool EXCEPT !.txs = @ \cup {tx},
                                      !.handles = @ \cup {revocationHandle}]
              /\ last' = Op("issueAttestation", ref, attester, NoReq,
                            Ret(revocationHandle))
  /\ UNCHANGED <<reqs, creds, chain, nextNonce, tampers, mail, delegation, connection>>

\* DelegationNodeUtils.countNodeDepth: whether attester owns the attestation
\* or a delegation node above it
MayRevoke(attester, attestation) ==
  \/ attestation.owner = attester
  \/ attester \in AncestorOwners(attestation.delegationId)

\* revokeAttestation(attester, revocationHandle)
revokeAttestation(attester, revocationHandle) ==
  /\ LET attestation == query(revocationHandle.claimHash)
         tx == [call |-> "revoke", attestation |-> attestation, signer |-> attester]
         res == IF attestation = NoAttestation THEN ERROR_NOT_FOUND
                ELSE IF ~MayRevoke(attester, attestation) THEN Throw("ERROR_UNAUTHORIZED", "")
                ELSE Ret("void")
     IN  /\ pool' = IF res.t = "return" THEN [pool EXCEPT !.txs = @ \cup {tx}] ELSE pool
         /\ last' = Op("revokeAttestation", 0,
                       [attester |-> attester, revocationHandle |-> revocationHandle],
                       NoReq, res)
  /\ UNCHANGED <<reqs, creds, chain, nextNonce, tampers, mail, delegation, connection>>

\* ledger: a submitted transaction is included in a block
includeTx(tx) ==
  /\ tx \in pool.txs
  /\ pool' = [pool EXCEPT !.txs = @ \ {tx}]
  /\ IF tx.call = "add"
     THEN /\ chain' = ChainAdd(tx.attestation, tx.signer)
          /\ last' = Op("includeTx", 0, tx, NoReq, ChainAddRes(tx.attestation, tx.signer))
     ELSE /\ chain' = ChainRevoke(tx.attestation.claimHash, tx.signer)
          /\ last' = Op("includeTx", 0, tx, NoReq,
                        ChainRevokeRes(tx.attestation.claimHash, tx.signer))
  /\ UNCHANGED <<reqs, creds, nextNonce, tampers, mail, delegation, connection>>

(* ------------------------------- Verifier ------------------------------ *)
\* outcomes of AttestedClaim.verify() on a credential
credVerify(cred) ==
  {IF ReachesLedger(o) THEN attestationVerify(cred.attestation)
   ELSE IF o.t = "throw" THEN o ELSE Ret("false") :
     o \in credVerifyData(CredValue(cred))}

\* the ways Promise.all(attestedClaims.map(ac => ac.verify())) settles: one
\* outcome per credential
AllSettled(attestedClaims) ==
  {all \in [1..Len(attestedClaims) ->
               UNION {credVerify(attestedClaims[i]) : i \in 1..Len(attestedClaims)}] :
     \A i \in 1..Len(attestedClaims) : all[i] \in credVerify(attestedClaims[i])}

\* [allVerified.every(b => b), attestedClaims], or the rejection of Promise.all
verifyPresentationResult(allVerified, attestedClaims) ==
  IF \E i \in 1..Len(allVerified) : allVerified[i].t = "throw"
  THEN allVerified[CHOOSE i \in 1..Len(allVerified) : allVerified[i].t = "throw"]
  ELSE Ret([verified |-> \A i \in 1..Len(allVerified) : allVerified[i] = Ret("true"),
            claims |-> attestedClaims])

\* verifyPresentation(presentation) without a session: content names the
\* presented credentials
verifyPresentation(type, content) ==
  /\ \A i \in 1..Len(content) : content[i] \in 1..Len(creds)
  /\ LET attestedClaims == [i \in 1..Len(content) |-> creds[content[i]]]
     IN  \/ /\ type = MessageBodyType.SUBMIT_CLAIMS_FOR_CTYPES
            /\ \E allVerified \in AllSettled(attestedClaims) :
                 last' = Op("verifyPresentation", 0,
                            [type |-> type, content |-> content], NoReq,
                            verifyPresentationResult(allVerified, attestedClaims))
         \/ /\ type = MessageBodyType.SUBMIT_CLAIMS_FOR_CTYPES_PE
            /\ last' = Op("verifyPresentation", 0,
                          [type |-> type, content |-> content], NoReq,
                          Throw("Received privacy enhanced presentation. Require:",
                                "session"))
         \/ /\ type \notin {MessageBodyType.SUBMIT_CLAIMS_FOR_CTYPES,
                            MessageBodyType.SUBMIT_CLAIMS_FOR_CTYPES_PE}
            /\ last' = Op("verifyPresentation", 0,
                          [type |-> type, content |-> content], NoReq,
                          Ret([verified |-> FALSE, claims |-> <<>>]))
  /\ UNCHANGED <<pool, reqs, creds, chain, nextNonce, tampers, mail, delegation, connection>>

(* --------------------------- Delegation tree --------------------------- *)
\* the ledger's delegation storage: `delegation.root` keeps the roots and
\* `delegation.delegations` the nodes below them.  A node record names its
\* root, and its parent when the parent is another node ("" otherwise).
Permission == [ATTEST |-> "ATTEST", DELEGATE |-> "DELEGATE"]
RootId == "0x00"
NodeIds == <<"0x01", "0x02", "0x03">>

NoNode == [kind |-> "null", id |-> "", rootId |-> "", parentId |-> "",
           account |-> "", permissions |-> {}, revoked |-> FALSE]

\* new DelegationRootNode(id, ctypeHash, account)
NewDelegationRootNode(id, account) ==
  [kind |-> "root", id |-> id, rootId |-> id, parentId |-> "",
   account |-> account, permissions |-> {}, revoked |-> FALSE]

\* new DelegationNode(id, rootId, account, permissions, parentId?)
NewDelegationNode(id, rootId, account, permissions, parentId) ==
  [kind |-> "node", id |-> id, rootId |-> rootId, parentId |-> parentId,
   account |-> account, permissions |-> permissions, revoked |-> FALSE]

\* the permissions as a 4-byte little-endian bitset: ATTEST is bit 0,
\* DELEGATE is bit 1
permissionsAsBitset(node) ==
  [kind |-> "u32", s |-> "",
   n |-> (IF Permission.ATTEST \in node.permissions THEN 1 ELSE 0)
         + (IF Permission.DELEGATE \in node.permissions THEN 2 ELSE 0),
   ls |-> <<>>]

\* a hash that takes the parent whenever the node names one
delegationGenerateHashWithParent(node) ==
  DigestLeaves(<<Bytes(node.id), Bytes(node.rootId)>>
               \o (IF node.parentId # "" THEN <<Bytes(node.parentId)>> ELSE <<>>)
               \o <<permissionsAsBitset(node)>>)

\* DelegationNode.generateHash
delegationGenerateHash(node) ==
  LET propsToHash ==
        <<node.id, node.rootId>>
        \o (IF node.parentId # "" /\ node.parentId # node.rootId
            THEN <<node.parentId>> ELSE <<>>)
      uint8Props == [i \in 1..Len(propsToHash) |-> Bytes(propsToHash[i])]
  IN  DigestLeaves(uint8Props \o <<permissionsAsBitset(node)>>)

\* the arguments of tx.delegation.addDelegation built by store
addDelegationTx(delegation_, signature) ==
  LET includeParentId ==
        IF delegation_.parentId # "" THEN delegation_.parentId # delegation_.rootId
                                     ELSE FALSE
  IN  [id |-> delegation_.id, rootId |-> delegation_.rootId,
       parentId |-> IF includeParentId THEN delegation_.parentId ELSE "",
       account |-> delegation_.account,
       permissions |-> permissionsAsBitset(delegation_),
       signature |-> signature]

\* ledger: the hash the runtime computes from the submitted arguments
LedgerDelegationHash(tx) ==
  DigestLeaves(<<Bytes(tx.id), Bytes(tx.rootId)>>
               \o (IF tx.parentId # "" THEN <<Bytes(tx.parentId)>> ELSE <<>>)
               \o <<tx.permissions>>)

RootIdsOnChain == {r.id : r \in delegation.root}
NodeIdsOnChain == {n.id : n \in delegation.delegations}

\* DelegationRootNode.chain query: the root stored under an id, or null
queryRoot(rootId) ==
  IF rootId \in RootIdsOnChain
  THEN CHOOSE r \in delegation.root : r.id = rootId ELSE NoNode

\* the set a permissions bitset decodes to
decodePermissions(bitset) ==
  CHOOSE p \in SUBSET {Permission.ATTEST, Permission.DELEGATE} :
    permissionsAsBitset([permissions |-> p]) = bitset

\* DelegationNode.chain query: the node stored under an id in
\* delegation.delegations, decoded, or null
queryDelegation(delegationId) ==
  IF delegationId \in NodeIdsOnChain
  THEN LET stored == CHOOSE n \in delegation.delegations : n.id = delegationId
       IN  [NewDelegationNode(stored.id, stored.rootId, stored.account,
                              decodePermissions(stored.permissions), stored.parentId)
              EXCEPT !.revoked = stored.revoked]
  ELSE NoNode

\* ledger: outcome of addDelegation submitted by identity
addDelegationRes(tx, identity) ==
  IF tx.rootId \notin RootIdsOnChain THEN Throw("root not found", tx.rootId)
  ELSE IF tx.id \in NodeIdsOnChain \cup RootIdsOnChain
  THEN Throw("delegation already exists", tx.id)
  ELSE IF tx.parentId # "" /\ tx.parentId \notin NodeIdsOnChain
  THEN Throw("parent not found", tx.parentId)
  ELSE IF (IF tx.parentId # "" THEN queryDelegation(tx.parentId).account
                               ELSE queryRoot(tx.rootId).account) # identity
  THEN Throw("not owner of parent", identity)
  ELSE IF "true" \notin verify(LedgerDelegationHash(tx), tx.signature, tx.account)
  THEN Throw("bad delegate signature", tx.account)
  ELSE Ret("Finalized")

\* ledger: the storage after addDelegation
addDelegation(tx, identity) ==
  IF addDelegationRes(tx, identity).t = "return"
  THEN [delegation EXCEPT !.delegations = @ \cup
          {[id |-> tx.id, rootId |-> tx.rootId, parentId |-> tx.parentId,
            account |-> tx.account, permissions |-> tx.permissions,
            revoked |-> FALSE]}]
  ELSE delegation

\* DelegationRootNode.store: the root is put on the ledger once
storeRoot(rootId, identity) ==
  /\ rootId \notin RootIdsOnChain
  /\ delegation' = [delegation EXCEPT !.root = @ \cup
                      {NewDelegationRootNode(rootId, identity)}]
  /\ last' = Op("DelegationRootNode.store", 0, rootId, NoReq, Ret("Finalized"))
  /\ UNCHANGED <<pool, connection, reqs, creds, chain, nextNonce, tampers, mail>>

\* DelegationNode.store(identity, signature), the delegate having signed
\* generateHash() of the node as the inviter built it
storeDelegationNode(node, identity) ==
  LET signature == signStr(node.account, delegationGenerateHash(node))
      tx == addDelegationTx(node, signature)
  IN  /\ delegation' = addDelegation(tx, identity)
      /\ last' = Op("DelegationNode.store", 0, [node |-> node, tx |-> tx], NoReq,
                    addDelegationRes(tx, identity))
      /\ UNCHANGED <<pool, connection, reqs, creds, chain, nextNonce, tampers, mail>>

\* DelegationNode.getRoot
getRoot(node) ==
  LET rootNode == queryRoot(node.rootId)
  IN  IF rootNode = NoNode
      THEN [NoNode EXCEPT !.kind = "throw", !.id = "Could not find root node with id",
                          !.rootId = node.rootId]
      ELSE rootNode

\* getParent: of a root null; of a node the root when it names no parent,
\* else what delegation.delegations holds under parentId
getParent(node) ==
  IF node.kind = "root" THEN NoNode
  ELSE IF node.parentId = "" THEN getRoot(node)
  ELSE queryDelegation(node.parentId)

RECURSIVE findAncestorOwnedBy(_, _)
findAncestorOwnedBy(this, address) ==
  IF this.account = address THEN [steps |-> 0, node |-> this]
  ELSE LET parent == getParent(this)
       IN  IF parent.kind = "throw" THEN [steps |-> 0, node |-> parent]
           ELSE IF parent # NoNode
           THEN LET result == findAncestorOwnedBy(parent, address)
                IN  [result EXCEPT !.steps = @ + 1]
           ELSE [steps |-> 0, node |-> NoNode]

\* ledger: delegation.children(id), the ids stored with id as their parent,
\* a root being the parent of the nodes that name no parent
getChildIds(id) ==
  {n.id : n \in {m \in delegation.delegations :
                   IF m.parentId # "" THEN m.parentId = id ELSE m.rootId = id}}

\* getChildren: every child id fetched and decoded, the undecodable dropped
getChildren(id) ==
  {queryDelegation(childId) : childId \in getChildIds(id)} \ {NoNode}

RECURSIVE SumOver(_, _)
SumOver(set, f) ==
  IF set = {} THEN 0
  ELSE LET x == CHOOSE y \in set : TRUE
       IN  f[x] + SumOver(set \ {x}, f)

RECURSIVE subtreeNodeCount(_)
\* a count of the children alone
subtreeNodeCountOfChildren(this) == Cardinality(getChildren(this.id))

subtreeNodeCount(this) ==
  LET children == getChildren(this.id)
  IN  IF Cardinality(children) > 0
      THEN LET childrensChildCounts == [child \in children |-> subtreeNodeCount(child)]
           IN  Cardinality(children) + SumOver(children, childrensChildCounts)
      ELSE 0

\* the node objects a caller holds: what the ledger returns for an id, and a
\* node as its inviter constructed it, naming the root as its parent
NodesOnChain ==
  {queryRoot(id) : id \in RootIdsOnChain} \cup
  {queryDelegation(id) : id \in NodeIdsOnChain}
NodesHeld ==
  NodesOnChain \cup
  {[n EXCEPT !.parentId = n.rootId] :
     n \in {m \in NodesOnChain : m.kind = "node" /\ m.parentId = ""}}

callFindAncestorOwnedBy(node, address) ==
  /\ node \in NodesHeld
  /\ last' = Op("findAncestorOwnedBy", 0, [node |-> node, address |-> address],
                NoReq, findAncestorOwnedBy(node, address))
  /\ UNCHANGED <<pool, connection, reqs, creds, chain, nextNonce, tampers, mail, delegation>>

callSubtreeNodeCount(node) ==
  /\ node \in NodesOnChain
  /\ last' = Op("subtreeNodeCount", 0, node, NoReq, subtreeNodeCount(node))
  /\ UNCHANGED <<pool, connection, reqs, creds, chain, nextNonce, tampers, mail, delegation>>

(* ----------------------- BlockchainApiConnection ----------------------- *)
\* the module-level `instance`, the Blockchain objects built so far (numbered
\* in the order their builds completed), the ones whose api is connected, and
\* the calls of getConnectionOrConnect: a call is awaiting buildConnection()
\* or has returned.  epoch counts the clearCache()/disconnect() calls.
NoInstance == 0

\* getConnectionOrConnect up to its await: with a cached instance it returns
\* it, else it starts buildConnection()
getConnectionOrConnect ==
  /\ Len(connection.calls) < MaxCalls
  /\ LET call == IF connection.instance # NoInstance
                 THEN [pc |-> "returned", epoch |-> connection.epoch,
                       built |-> FALSE, result |-> connection.instance]
                 ELSE [pc |-> "buildConnection", epoch |-> connection.epoch,
                       built |-> FALSE, result |-> NoInstance]
     IN  /\ connection' = [connection EXCEPT !.calls = Append(@, call)]
         /\ last' = Op("getConnectionOrConnect", Len(connection.calls) + 1, <<>>,
                       NoReq, Ret(call.pc))
  /\ UNCHANGED <<pool, reqs, creds, chain, nextNonce, tampers, mail, delegation>>

\* buildConnection() of call i resolves: the new Blockchain is assigned to
\* instance and returned
buildConnectionResolved(i) ==
  /\ i \in 1..Len(connection.calls)
  /\ connection.calls[i].pc = "buildConnection"
  /\ LET blockchain == connection.built + 1
         instance == blockchain
     IN  /\ connection' =
               [connection EXCEPT
                  !.built = blockchain,
                  !.open = @ \cup {blockchain},
                  !.instance = instance,
                  !.calls[i] = [@ EXCEPT !.pc = "returned", !.built = TRUE,
                                         !.result = instance]]
         /\ last' = Op("buildConnection", i, <<>>, NoReq, Ret(instance))
  /\ UNCHANGED <<pool, reqs, creds, chain, nextNonce, tampers, mail, delegation>>

clearCache ==
  /\ connection.epoch < MaxEpochs
  /\ connection' = [connection EXCEPT !.instance = NoInstance, !.epoch = @ + 1]
  /\ last' = Op("clearCache", 0, <<>>, NoReq, Ret("void"))
  /\ UNCHANGED <<pool, reqs, creds, chain, nextNonce, tampers, mail, delegation>>

\* !!instance && instance.api.isConnected
connected == connection.instance # NoInstance /\ connection.instance \in connection.open

\* disconnect: the cached connection is closed when it is connected, and the
\* cache is cleared
disconnect ==
  /\ connection.epoch < MaxEpochs
  /\ connection' = [connection EXCEPT
                      !.open = IF connected THEN @ \ {connection.instance} ELSE @,
                      !.instance = NoInstance, !.epoch = @ + 1]
  /\ last' = Op("disconnect", 0, <<>>, NoReq,
                Ret(IF connected THEN "true" ELSE "false"))
  /\ UNCHANGED <<pool, reqs, creds, chain, nextNonce, tampers, mail, delegation>>

(* ------------------------------ behaviour ------------------------------ *)
\* a credential of the attester, issued earlier, that a claimer may cite as a
\* legitimation (nonces 101.. are the ones its build drew)
LicenseAuthorization ==
  LET request == NewRequest([cTypeHash |-> DriversLicense,
                             contents |-> <<[k |-> "LicenseType", v |-> Str("Drivers")]>>,
                             owner |-> Attester],
                            <<>>, "", Attester, 101)
  IN  [request |-> request, attestation |-> NewAttestation(request, Attester)]

\* what a claimer passes to fromClaimAndIdentity: contents, legitimations, delegationId
BuildInputs ==
  { [contents |-> <<>>, legitimations |-> <<>>, delegationId |-> ""],
    [contents |-> <<[k |-> "name", v |-> Str("Ralfi")], [k |-> "age", v |-> Num("12")]>>,
     legitimations |-> <<>>, delegationId |-> ""],
    [contents |-> <<[k |-> "name", v |-> Str("Ralfi")], [k |-> "age", v |-> Num("12")]>>,
     legitimations |-> <<LicenseAuthorization>>, delegationId |-> "0x01"] }

PlainInputs == { b \in BuildInputs : Len(b.contents) > 0 /\ b.delegationId = "" }

Init ==
  /\ reqs = <<>>
  /\ creds = <<>>
  /\ chain = {}
  /\ nextNonce = 1
  /\ tampers = 0
  /\ mail = <<>>
  /\ delegation = [root |-> {}, delegations |-> {}]
  /\ connection = [instance |-> NoInstance, built |-> 0, open |-> {}, epoch |-> 1, calls |-> <<>>]
  /\ pool = [txs |-> {}, handles |-> {}]
  /\ last = Op("init", 0, <<>>, NoReq, Ret("void"))

\* one request object: commit, redact, tamper, verify
NextRequest ==
  \/ \E b \in BuildInputs, identity \in Addresses :
       /\ Len(reqs) < MaxSolo
       /\ fromClaimAndIdentity(b.contents, DriversLicense, Claimer, identity,
                               b.legitimations, b.delegationId)
  \/ \E b \in BuildInputs, identity \in Addresses :
       /\ Len(reqs) < MaxSolo
       /\ newRequestForAttestation(b.contents, DriversLicense, Claimer, identity,
                                   b.legitimations, b.delegationId)
  \/ \E ref \in 1..MaxSolo, keys \in KeyLists : removeClaimProperties(ref, keys)
  \/ \E ref \in 1..MaxSolo : removeClaimOwner(ref)
  \/ \E ref \in 1..MaxSolo : requestVerifyData(ref)
  \/ \E ref \in 1..MaxSolo : requestVerifySignature(ref)
  \/ \E ref \in 1..MaxSolo, key \in RemoveKeys, value \in TamperValues :
       TamperValue(ref, key, value)
  \/ \E ref \in 1..MaxSolo, address \in Addresses : TamperOwner(ref, address)
  \/ \E ref \in 1..MaxSolo, key \in RemoveKeys, value \in TamperValues :
       TamperHash(ref, key, value)
  \/ \E ref \in 1..MaxSolo : TamperLegitimation(ref, 1, Digest("forged"))

Spec == Init /\ [][NextRequest]_vars

\* requests, the ledger and credentials
NextCredential ==
  \/ \E b \in PlainInputs :
       /\ Len(reqs) < MaxReqs
       /\ fromClaimAndIdentity(b.contents, DriversLicense, Claimer, Claimer,
                               b.legitimations, b.delegationId)
  \/ \E ref \in 1..MaxReqs, address \in Addresses : TamperOwner(ref, address)
  \/ \E ref \in 1..MaxReqs, identity \in Addresses : store(ref, Attester, identity)
  \/ \E claimHash \in KnownHashes, identity \in Addresses : revoke(claimHash, identity)
  \/ \E ref \in 1..MaxReqs, attRef \in 1..MaxReqs :
       newAttestedClaim(ref, attRef, Attester)
  \/ \E c \in 1..MaxCreds : attestedClaimVerifyData(c)
  \/ \E c \in 1..MaxCreds : attestedClaimVerify(c)
  \/ \E c \in 1..MaxCreds, claimHash \in KnownHashes : verifyAttestation(c, claimHash)
  \/ \E c \in 1..MaxCreds, keys \in KeyLists, excludeIdentity \in BOOLEAN :
       createPresentation(c, keys, excludeIdentity)

SpecCredential == Init /\ [][NextCredential]_vars

\* the claim attested in the delegation hierarchy, requested with and without
\* the delegationId of the attester's node
DelegatedInputs ==
  { [contents |-> <<[k |-> "name", v |-> Str("Ralfi")], [k |-> "age", v |-> Num("12")]>>,
     legitimations |-> <<>>, delegationId |-> d] : d \in {"", "0x01"} }

\* attestations in and out of the delegation hierarchy, and who may revoke them
NextDelegation ==
  \/ \E b \in DelegatedInputs :
       /\ Len(reqs) < MaxReqs
       /\ fromClaimAndIdentity(b.contents, DriversLicense, Claimer, Claimer,
                               b.legitimations, b.delegationId)
  \/ \E ref \in 1..MaxReqs : store(ref, Attester, Attester)
  \/ \E claimHash \in KnownHashes, identity \in Identities : revoke(claimHash, identity)
  \/ \E ref \in 1..MaxReqs : newAttestedClaim(ref, ref, Attester)
  \/ \E c \in 1..MaxCreds : attestedClaimVerify(c)

SpecDelegation == Init /\ [][NextDelegation]_vars

\* the bodies put on the wire
SentBodies ==
  {RequestAttestationBody(Claimer), SubmitClaimsBody(<<Claimer>>),
   OtherBody(MessageBodyType.REQUEST_TERMS)}

\* envelopes on the wire, what is done to them there, and their reception
NextMessage ==
  \/ \E body \in SentBodies, sender \in Addresses, receiver \in Addresses :
       newMessage(body, sender, receiver)
  \/ \E text \in {WrongJSON, EmptyText}, sender \in Addresses, receiver \in Addresses :
       sendText(text, sender, receiver)
  \/ \E i \in 1..MaxMail : TamperMail(i)
  \/ \E i \in 1..MaxMail, signer \in Addresses : Resign(i, signer)
  \/ \E i \in 1..MaxMail, receiver \in Addresses : receive(i, receiver)
  \/ \E body \in MessageBodies, senderAddress \in Addresses :
       messageEnsureOwnerIsSender(body, senderAddress)

SpecMessage == Init /\ [][NextMessage]_vars

\* the nodes an inviter may put under the root or under a stored node
NodeInputs ==
  LET id == NodeIds[Cardinality(delegation.delegations) + 1]
  IN  {NewDelegationNode(id, RootId, account, permissions, parentId) :
         account \in Identities,
         permissions \in {{Permission.ATTEST}, {Permission.ATTEST, Permission.DELEGATE}},
         parentId \in {"", RootId} \cup NodeIdsOnChain}

\* a delegation tree grown on the ledger and walked up and down
NextTree ==
  \/ storeRoot(RootId, UncleSam)
  \/ /\ Cardinality(delegation.delegations) < MaxNodes
     /\ \E node \in NodeInputs, identity \in Identities :
          storeDelegationNode(node, identity)
  \/ \E node \in NodesHeld, address \in Identities :
       callFindAncestorOwnedBy(node, address)
  \/ \E node \in NodesOnChain : callSubtreeNodeCount(node)

SpecTree == Init /\ [][NextTree]_vars

\* callers of the connection cache, builds resolving in any order
NextConnection ==
  \/ getConnectionOrConnect
  \/ \E i \in 1..MaxCalls : buildConnectionResolved(i)
  \/ clearCache
  \/ disconnect

SpecConnection == Init /\ [][NextConnection]_vars

\* credentials issued, spoiled or revoked, and presented to a verifier
NextVerifier ==
  \/ \E b \in PlainInputs :
       /\ Len(reqs) < MaxReqs
       /\ fromClaimAndIdentity(b.contents, DriversLicense, Claimer, Claimer,
                               b.legitimations, b.delegationId)
  \/ \E ref \in 1..MaxReqs, key \in RemoveKeys, value \in TamperValues :
       TamperValue(ref, key, value)
  \/ \E ref \in 1..MaxReqs : store(ref, Attester, Attester)
  \/ \E claimHash \in KnownHashes : revoke(claimHash, Attester)
  \/ \E ref \in 1..MaxReqs : newAttestedClaim(ref, ref, Attester)
  \/ \E type \in {MessageBodyType.SUBMIT_CLAIMS_FOR_CTYPES,
                   MessageBodyType.SUBMIT_CLAIMS_FOR_CTYPES_PE,
                   MessageBodyType.REQUEST_TERMS},
        content \in {<<1>>, <<2>>, <<1, 2>>} : verifyPresentation(type, content)

SpecVerifier == Init /\ [][NextVerifier]_vars

\* one request whose public fields are changed in any combination, verified
NextIntegrity ==
  \/ \E b \in BuildInputs :
       /\ Len(reqs) < MaxSolo
       /\ fromClaimAndIdentity(b.contents, DriversLicense, Claimer, Claimer,
                               b.legitimations, b.delegationId)
  \/ \E ref \in 1..MaxSolo : SetOwner(ref, Attester)
  \/ \E ref \in 1..MaxSolo : SetCTypeHash(ref, "Passport")
  \/ \E ref \in 1..MaxSolo : SetClaimerSignature(ref, Attester)
  \/ \E ref \in 1..MaxSolo, key \in {"weight", "toString"} : AddAttribute(ref, key, Num("80"))
  \/ \E ref \in 1..MaxSolo, key \in {"name", "age"} : TamperValue(ref, key, Num("13"))
  \/ \E ref \in 1..MaxSolo : TamperHash(ref, "name", Str("12"))
  \/ \E ref \in 1..MaxSolo : TamperLegitimation(ref, 1, Digest("forged"))
  \/ \E ref \in 1..MaxSolo : removeClaimProperties(ref, <<"name">>)
  \/ \E ref \in 1..MaxSolo : removeClaimOwner(ref)
  \/ \E ref \in 1..MaxSolo : requestVerifyData(ref)
  \/ \E ref \in 1..MaxSolo, missing \in {{}, {"rootHash"}, {"privacyEnhanced"},
                                         {"claim", "claimerSignature"}} :
       fromRequest(ref, missing)

SpecIntegrity == Init /\ [][NextIntegrity]_vars

\* requests sent to the attester actor, its transactions on their way to the
\* ledger, and revocations by handle
NextAttester ==
  \/ \E b \in DelegatedInputs :
       /\ Len(reqs) < MaxReqs
       /\ fromClaimAndIdentity(b.contents, DriversLicense, Claimer, Claimer,
                               b.legitimations, b.delegationId)
  \/ \E type \in {MessageBodyType.REQUEST_ATTESTATION_FOR_CLAIM,
                   MessageBodyType.REQUEST_TERMS}, ref \in 1..MaxReqs :
       issueAttestation(type, ref, Attester)
  \/ \E attester \in Identities, claimHash \in KnownHashes :
       revokeAttestation(attester, [claimHash |-> claimHash])
  \/ \E tx \in pool.txs : includeTx(tx)

SpecAttester == Init /\ [][NextAttester]_vars

(* ------------------- properties of one request (Spec) ------------------ *)
True == {Ret("true")}
LastReq == reqs[last.ref]
Removed(tree, key) == TreeHas(tree, key) /\ TreeAt(tree, key).nonce = NoNonce
ArgKeys == {last.arg[i] : i \in 1..Len(last.arg)}
PropertyNotFound(key) == Throw("Property not found in claim", key)
InvalidAttributeHash(key) == Throw("Invalid hash for property in claim hash tree", key)

\* C1: redaction preserves the root. After removeClaimProperties(keys), with
\* every key an entry of the hash tree (the empty list included), the stored
\* rootHash is unchanged and so is the root recomputed from the leaves (the
\* two agree wherever they agreed before), each removed key is gone from
\* claim.contents, its NonceHash has no nonce and the same hash, and a
\* request whose verifyData() returned true still returns true.
Claim1_RedactionPreservesRoot ==
  (/\ last.op = "removeClaimProperties"
   /\ \A k \in ArgKeys : TreeHas(last.pre.claimHashTree, k))
  => /\ last.res = Ret("void")
     /\ LastReq.rootHash = last.pre.rootHash
     /\ calculateRootHash(LastReq) = calculateRootHash(last.pre)
     /\ last.pre.rootHash = calculateRootHash(last.pre)
          => LastReq.rootHash = calculateRootHash(LastReq)
     /\ \A k \in ArgKeys :
          /\ ~ContentsHas(LastReq.claim.contents, k)
          /\ TreeAt(LastReq.claimHashTree, k).nonce = NoNonce
          /\ TreeAt(LastReq.claimHashTree, k).hash = TreeAt(last.pre.claimHashTree, k).hash
     /\ (verifyData(last.pre) = True => verifyData(LastReq) = True)

\* a request with a legitimation and a delegationId, verified before, lost "age"
Witness1_AttributeRedacted ==
  /\ last.op = "removeClaimProperties"
  /\ last.arg = <<"age">>
  /\ Len(last.pre.legitimations) = 1
  /\ last.pre.delegationId # ""
  /\ ContentsHas(last.pre.claim.contents, "age")
  /\ verifyData(last.pre) = True
  /\ verifyData(LastReq) = True

\* C3: tamper detection. Once the value of an attribute present in
\* claim.contents is changed without updating its NonceHash, verifyData()
\* throws the attribute-hash error naming that attribute.
Claim3_TamperDetected ==
  last.op = "TamperValue" => verifyData(LastReq) = {InvalidAttributeHash(last.arg)}

\* C4: signature binding. When claim.owner holds an address other than the
\* one the request was committed and signed for, verifySignature() returns
\* false and does not throw.
Claim4_SignatureBinding ==
  (/\ last.op = "verifySignature"
   /\ LastReq.claim.owner # Undefined
   /\ LastReq.claim.owner # LastReq.claimOwner.hash.s)
  => last.res = Ret("false")

\* verifySignature() ran on a request that verified until its owner was replaced
Witness4_OwnerChanged ==
  /\ last.op = "verifySignature"
  /\ LastReq.claim.owner = Attester
  /\ LastReq.claimOwner.hash.s = Claimer
  /\ LastReq.claimerSignature = signStr(Claimer, LastReq.rootHash)
  /\ last.res = Ret("false")

Claim9_UnknownKeyFails ==
  (/\ last.op = "removeClaimProperties"
   /\ \E k \in ArgKeys : ~TreeHas(last.pre.claimHashTree, k))
  => last.res.t = "throw" /\ last.res.v = "Property not found in claim"

\* C10: owner redaction keeps the request verifiable. After removeClaimOwner()
\* on a request that verified, claim.owner and claimOwner.nonce are absent,
\* claimOwner.hash and rootHash are unchanged, and verifyData() returns true.
Claim10_OwnerRedactionVerifiable ==
  (last.op = "removeClaimOwner" /\ verifyData(last.pre) = True)
  => /\ LastReq.claim.owner = Undefined
     /\ LastReq.claimOwner.nonce = NoNonce
     /\ LastReq.claimOwner.hash = last.pre.claimOwner.hash
     /\ LastReq.rootHash = last.pre.rootHash
     /\ verifyData(LastReq) = True

\* the root of the current commitments, by the multi-leaf path
RootOfLeaves(r) == DigestLeaves(getHashLeaves(r))

\* C11: a root-hash mismatch fails closed. For any request whose stored
\* rootHash differs from the root recomputed from its commitments,
\* verifyData() returns false and does not throw, whatever else was changed.
Claim11_RootMismatchFailsClosed ==
  \A i \in 1..Len(reqs) :
    reqs[i].rootHash # RootOfLeaves(reqs[i]) => verifyData(reqs[i]) = {Ret("false")}

\* verifyData() returned false on a request whose attribute hash was rewritten
\* and whose owner was replaced as well
Witness11_MismatchReturnedFalse ==
  /\ last.op = "verifyData"
  /\ last.res = Ret("false")
  /\ LastReq.rootHash # RootOfLeaves(LastReq)
  /\ LastReq.claim.owner = Attester
  /\ \E i \in 1..Len(LastReq.claimHashTree) :
       LastReq.claimHashTree[i].hash #
         hashNonceValue(LastReq.claimHashTree[i].nonce, Str("Ralfi"))
       /\ LastReq.claimHashTree[i].k = "name"

OwnerMismatch ==
  {Throw("Claim owner is not Identity", ""), Throw("Claim owner is not identity", "")}

\* C12: build precondition. A call of fromClaimAndIdentity or of the signing
\* constructor with claim.owner different from the signer identity's address
\* fails with the owner-mismatch error, produces no request and signs nothing:
\* the requests are as before the call, and no request carries a signature by
\* an identity other than the owner it was committed for.
Claim12_BuildPrecondition ==
  [][(/\ last'.op \in {"fromClaimAndIdentity", "new RequestForAttestation"}
      /\ last'.arg.owner # last'.arg.identity)
     => /\ last'.res \in OwnerMismatch
        /\ reqs' = reqs
        /\ \A i \in 1..Len(reqs') :
             reqs'[i].claimerSignature.signer = reqs'[i].claimOwner.hash.s]_vars

\* the attester tried to build a request for the claimer's claim
Witness12_BuildRefused ==
  /\ last.op = "fromClaimAndIdentity"
  /\ last.arg = [owner |-> Claimer, identity |-> Attester]
  /\ last.res = Throw("Claim owner is not Identity", "")
  /\ reqs = <<>>

\* C13: the leaf list of a request always has at least two leaves: the owner
\* commitment and the schema commitment first, then the attribute hashes in
\* key order, the legitimation hashes in order and the delegationId if there
\* is one. So the root is always digest(concat(leaves)), never the single
\* leaf, and a claim with no attributes, legitimations or delegationId has
\* rootHash = digest(ownerCommit.hash ++ schemaCommit.hash).
Claim13_AtLeastTwoLeaves ==
  \A i \in 1..Len(reqs) :
    LET r == reqs[i]
        leaves == getHashLeaves(r)
        n == Len(r.claimHashTree)
        m == Len(r.legitimations)
    IN  /\ Len(leaves) >= 2
        /\ Len(leaves) = 2 + n + m + (IF r.delegationId # "" THEN 1 ELSE 0)
        /\ leaves[1] = r.claimOwner.hash
        /\ leaves[2] = r.ctypeHash.hash
        /\ \A j \in 1..n : leaves[2 + j] = r.claimHashTree[j].hash
        /\ \A j \in 1..m : leaves[2 + n + j] = r.legitimations[j].attestation.claimHash
        /\ r.delegationId # "" => leaves[Len(leaves)] = Bytes(r.delegationId)
        /\ calculateRootHash(r) = DigestLeaves(leaves)
        /\ (n = 0 /\ m = 0 /\ r.delegationId = "")
             => r.rootHash = DigestLeaves(<<r.claimOwner.hash, r.ctypeHash.hash>>)

\* a request for a claim with no attributes, legitimations or delegationId
Witness13_EmptyClaim ==
  /\ Len(reqs) = 1
  /\ reqs[1].claim.contents = <<>>
  /\ reqs[1].claimHashTree = <<>>
  /\ reqs[1].legitimations = <<>>
  /\ reqs[1].delegationId = ""
  /\ last.op = "verifyData"
  /\ last.res = Ret("true")

\* C14 as stated: for every legitimation embedded in a request, the rootHash
\* of the legitimation's own request is one of the leaves of the outer root
\* computation, and the outer verifyData() returns true only if verifyData()
\* of every legitimation returned true.
Claim14_LegitimationRootIsLeaf ==
  \A i \in 1..Len(reqs) :
    LET r == reqs[i]
        leaves == getHashLeaves(r)
    IN  \A j \in 1..Len(r.legitimations) :
          /\ \E l \in 1..Len(leaves) : leaves[l] = r.legitimations[j].request.rootHash
          /\ Ret("true") \in verifyData(r) => credVerifyData(r.legitimations[j]) = True

\* C14 as amended: the leaf of the outer root computation is the claimHash of
\* the legitimation's attestation (getHash()), whatever rootHash its request
\* holds; the outer verifyData() returns true only if verifyData() of every
\* legitimation returned true, and then that leaf is the rootHash of the
\* legitimation's request.
Claim14_LegitimationClaimHashIsLeaf ==
  \A i \in 1..Len(reqs) :
    LET r == reqs[i]
        leaves == getHashLeaves(r)
        n == Len(r.claimHashTree)
    IN  \A j \in 1..Len(r.legitimations) :
          /\ leaves[2 + n + j] = r.legitimations[j].attestation.claimHash
          /\ Ret("true") \in verifyData(r)
               => /\ credVerifyData(r.legitimations[j]) = True
                  /\ leaves[2 + n + j] = r.legitimations[j].request.rootHash

\* the request inside the legitimation got another rootHash: the outer root
\* still matches and verifyData() of the outer request returned false
Witness14_LegitimationRootChanged ==
  /\ last.op = "verifyData"
  /\ Len(LastReq.legitimations) = 1
  /\ LastReq.legitimations[1].request.rootHash # LastReq.legitimations[1].attestation.claimHash
  /\ LastReq.rootHash = RootOfLeaves(LastReq)
  /\ last.res = Ret("false")

(* ------------ properties of credentials (SpecCredential) --------------- *)
LastCred == creds[last.ref]
LastRecord == query(LastCred.attestation.claimHash)

Claim15_CredentialDataValid ==
  \A c \in 1..Len(creds) :
    LET cred == CredValue(creds[c])
    IN  /\ Ret("true") \in credVerifyData(cred)
           <=> /\ Ret("true") \in verifyData(cred.request)
               /\ cred.request.rootHash = cred.attestation.claimHash
        /\ (/\ verifyData(cred.request) = True
            /\ cred.request.rootHash # cred.attestation.claimHash)
           => credVerifyData(cred) = {Ret("false")}

\* verifyData() of a credential that pairs a valid request with the attestation
\* of another request returned false
Witness15_ForeignAttestation ==
  /\ last.op = "AttestedClaim.verifyData"
  /\ verifyData(reqs[LastCred.request]) = True
  /\ reqs[LastCred.request].rootHash # LastCred.attestation.claimHash
  /\ last.res = Ret("false")

\* C16: Attestation.verify(claimHash) resolves true if and only if the ledger
\* holds a record for claimHash, the record's owner is this attestation's
\* owner and the record is not revoked; a missing record gives false, not an
\* error.
Claim16_AttestationVerify ==
  last.op = "Attestation.verify"
  => /\ last.res \in {Ret("true"), Ret("false")}
     /\ last.res = Ret("true")
        <=> \E a \in chain : /\ a.claimHash = last.arg
                             /\ a.owner = LastCred.attestation.owner
                             /\ ~a.revoked

\* verify(claimHash) for a claimHash the ledger has no record of resolved false
Witness16_MissingRecord ==
  /\ last.op = "Attestation.verify"
  /\ \A a \in chain : a.claimHash # last.arg
  /\ \E a \in chain : a.claimHash = LastCred.attestation.claimHash /\ ~a.revoked
  /\ last.res = Ret("false")

\* C5: end-to-end lifecycle. For a credential whose data verifies: while the
\* ledger holds the attester's unrevoked record for its claimHash, verify()
\* resolves true; once that record is revoked, verify() resolves false (and
\* never true, whatever the state of the credential's data).
Claim5_Lifecycle ==
  last.op = "AttestedClaim.verify"
  => /\ (/\ last.arg = Ret("true")
         /\ LastRecord # NoAttestation
         /\ LastRecord.owner = LastCred.attestation.owner
         /\ ~LastRecord.revoked) => last.res = Ret("true")
     /\ (LastRecord # NoAttestation /\ LastRecord.revoked)
          => /\ last.res # Ret("true")
             /\ last.arg = Ret("true") => last.res = Ret("false")

\* verify() ran on a sound credential after the attester revoked its attestation
Witness5_VerifyAfterRevoke ==
  /\ last.op = "AttestedClaim.verify"
  /\ last.arg = Ret("true")
  /\ LastRecord # NoAttestation
  /\ LastRecord.owner = Attester
  /\ LastRecord.revoked
  /\ last.res = Ret("false")

\* C6: revocation is monotonic. No step removes a ledger record or changes
\* its owner or schema hash, and a record that is revoked stays revoked.
Claim6_RevocationMonotonic ==
  [][\A a \in chain : \E b \in chain' :
        /\ b.claimHash = a.claimHash
        /\ b.owner = a.owner
        /\ b.cTypeHash = a.cTypeHash
        /\ a.revoked => b.revoked]_vars

\* a store for a claimHash whose record is revoked was refused
Witness6_StoreAfterRevoke ==
  /\ last.op = "store"
  /\ last.res = Throw("already attested", "")
  /\ query(last.arg.claimHash).revoked

\* C17: duplicate attestations are rejected. The ledger holds at most one
\* record per claimHash; a store() for a claimHash that has a record fails
\* with the 'already attested' error and leaves the ledger, and so the
\* record's owner, schema hash, delegationId and revoked flag, unchanged.
Claim17_DuplicateRejected ==
  [][/\ \A a, b \in chain' : a.claimHash = b.claimHash => a = b
     /\ (last'.op = "store" /\ OnChain(last'.arg.claimHash))
        => /\ last'.res = Throw("already attested", "")
           /\ chain' = chain]_vars

\* a second store for a claimHash whose record is in force was refused
Witness17_StoredTwice ==
  /\ last.op = "store"
  /\ last.res = Throw("already attested", "")
  /\ query(last.arg.claimHash).owner = Attester
  /\ ~query(last.arg.claimHash).revoked

\* C18: revocation authorization. revoke(claimHash, identity) on a recorded
\* attestation succeeds if and only if identity is the attestation's owner or
\* owns a node on the path from the attestation's delegation to its root;
\* for any other identity it fails with the not-permitted error, the record
\* stays as it was and verify() of every credential resolves as before.
Claim18_RevocationAuthorization ==
  [][(last'.op = "revoke" /\ OnChain(last'.arg.claimHash))
     => LET record == query(last'.arg.claimHash)
            identity == last'.arg.identity
        IN  IF \/ identity = record.owner
               \/ identity \in AncestorOwners(record.delegationId)
            THEN /\ last'.res = Ret("Finalized")
                 /\ chain' = (chain \ {record}) \cup {[record EXCEPT !.revoked = TRUE]}
            ELSE /\ last'.res = Throw("not permitted", "")
                 /\ chain' = chain
                 /\ \A c \in 1..Len(creds) :
                      attestationVerify(creds[c].attestation)'
                        = attestationVerify(creds[c].attestation)]_vars

\* the owner of the delegation root revoked an attestation the attester had
\* issued under the delegation
Witness18_RevokedByRoot ==
  /\ last.op = "revoke"
  /\ last.arg.identity = UncleSam
  /\ last.res = Ret("Finalized")
  /\ query(last.arg.claimHash).owner = Attester
  /\ query(last.arg.claimHash).delegationId = "0x01"
  /\ query(last.arg.claimHash).revoked

Claim19_ReceptionOrder ==
  last.op = "createFromEncryptedMessage"
  => LET encrypted == last.pre
         hashOk == encrypted.hash =
                     MessageHash(encrypted.message, encrypted.nonce, encrypted.createdAt)
         signatureOk == encrypted.signature = signStr(encrypted.senderAddress, encrypted.hash)
         Called(call) == \E n \in 1..Len(last.arg) : last.arg[n] = call
     IN  /\ last.arg[1] = "ensureHashAndSignature"
         /\ ~hashOk => last.res = Throw("Hash of message not correct", "")
         /\ (hashOk /\ ~signatureOk)
              => last.res = Throw("Signature of message not correct", "")
         /\ ~(hashOk /\ signatureOk)
              => ~Called("decryptAsymmetricAsStr") /\ ~Called("JSON.parse")
         /\ (hashOk /\ signatureOk)
              => /\ last.arg[2] = "decryptAsymmetricAsStr"
                 /\ \/ last.res = Throw("Error decoding message", "") /\ Len(last.arg) = 2
                    \/ /\ last.arg = <<"ensureHashAndSignature", "decryptAsymmetricAsStr",
                                        "JSON.parse">>
                       /\ \/ last.res = Throw("Error parsing message body", "")
                          \/ last.res.t = "return"

\* an envelope whose box was replaced on the wire (it would not decrypt
\* either) was refused for its hash, without a decryption
Witness19_WrongBoxRefusedForHash ==
  /\ last.op = "createFromEncryptedMessage"
  /\ last.pre.message = WrongBox
  /\ last.pre.signature = signStr(last.pre.senderAddress, last.pre.hash)
  /\ last.res = Throw("Hash of message not correct", "")
  /\ last.arg = <<"ensureHashAndSignature">>

\* C20: sender binding. ensureOwnerIsSender throws 'Sender is not owner of
\* the claim' for a request-attestation message whose claim.owner differs
\* from senderAddress, 'Sender is not owner of the attestation' for a
\* submit-attestation message whose attestation.owner differs from it, and
\* 'Sender is not owner of the claims' for a submit-claims message if any one
\* of its credentials has another claim owner; it accepts all three when the
\* owners are the sender, and every other message type unconditionally.
Claim20_SenderBinding ==
  last.op = "ensureOwnerIsSender"
  => LET body == last.arg.body
         sender == last.arg.senderAddress
     IN  /\ body.type = "request-attestation-for-claim"
              => last.res = IF body.content.requestForAttestation.claim.owner # sender
                            THEN Throw("Sender is not owner of the claim", "")
                            ELSE Ret("void")
         /\ body.type = "submit-attestation-for-claim"
              => last.res = IF body.content.attestation.owner # sender
                            THEN Throw("Sender is not owner of the attestation", "")
                            ELSE Ret("void")
         /\ body.type = "submit-claims-for-ctypes"
              => last.res = IF \E i \in 1..Len(body.content) :
                                 body.content[i].request.claim.owner # sender
                            THEN Throw("Sender is not owner of the claims", "")
                            ELSE Ret("void")
         /\ body.type \notin {"request-attestation-for-claim",
                               "submit-attestation-for-claim",
                               "submit-claims-for-ctypes"}
              => last.res = Ret("void")

\* a submit-claims message whose second credential belongs to someone else
\* was refused
Witness20_SecondClaimNotOwned ==
  /\ last.op = "ensureOwnerIsSender"
  /\ last.arg.body = SubmitClaimsBody(<<Claimer, Attester>>)
  /\ last.arg.senderAddress = Claimer
  /\ last.res = Throw("Sender is not owner of the claims", "")

(* ------------- properties of the delegation tree (SpecTree) ------------ *)
LastNode == last.arg.node
IncludesParent(node) == node.parentId # "" /\ node.parentId # node.rootId

\* C21: generateHash() hashes id, rootId, the parentId exactly when it is
\* present and differs from rootId, and the permissions bitset; store()
\* submits parentId in exactly the same cases, so the hash the delegate signed
\* is the hash of what the ledger receives, and a node naming the root as its
\* parent hashes as the node without parentId does.
Claim21_ParentRule ==
  last.op = "DelegationNode.store" =>
    LET node == LastNode
        tx == last.arg.tx
        hashed == delegationGenerateHash(node).ls
    IN  /\ tx.parentId = (IF IncludesParent(node) THEN node.parentId ELSE "")
        /\ Len(hashed) = (IF IncludesParent(node) THEN 4 ELSE 3)
        /\ hashed[1] = Bytes(node.id)
        /\ hashed[2] = Bytes(node.rootId)
        /\ hashed[Len(hashed)] = permissionsAsBitset(node)
        /\ IncludesParent(node) => hashed[3] = Bytes(node.parentId)
        /\ node.parentId = node.rootId =>
             delegationGenerateHash(node)
               = delegationGenerateHash([node EXCEPT !.parentId = ""])
        /\ delegationGenerateHash(node) = LedgerDelegationHash(tx)

Witness21_RootNamedAsParent ==
  /\ last.op = "DelegationNode.store"
  /\ LastNode.parentId = LastNode.rootId
  /\ last.res = Ret("Finalized")

Witness21_NodeNamedAsParent ==
  /\ last.op = "DelegationNode.store"
  /\ IncludesParent(LastNode)
  /\ last.res = Ret("Finalized")

\* the parent of a node in the tree: the root for a node directly under it,
\* however the node names it
ParentInTree(node) ==
  IF node.kind = "root" THEN NoNode
  ELSE IF node.parentId = "" \/ node.parentId = node.rootId THEN queryRoot(node.rootId)
  ELSE queryDelegation(node.parentId)

RECURSIVE PathToRoot(_)
PathToRoot(node) ==
  IF node = NoNode THEN <<>> ELSE <<node>> \o PathToRoot(ParentInTree(node))

OwnedOnPath(node, address) ==
  {i \in 1..Len(PathToRoot(node)) : PathToRoot(node)[i].account = address}

NearestOwned(node, address) ==
  CHOOSE i \in OwnedOnPath(node, address) :
    \A j \in OwnedOnPath(node, address) : i <= j

\* C22: findAncestorOwnedBy(address) returns the nearest node on the path from
\* this node up to the root that address owns, with the number of hops to it,
\* and node = null when address owns no node on the path.
Claim22_NearestOwnedAncestor ==
  last.op = "findAncestorOwnedBy" =>
    LET node == LastNode
        address == last.arg.address
    IN  IF OwnedOnPath(node, address) # {}
        THEN /\ last.res.node = PathToRoot(node)[NearestOwned(node, address)]
             /\ last.res.steps = NearestOwned(node, address) - 1
        ELSE last.res.node = NoNode

\* C22 for the nodes as the ledger returns them
Claim22_NearestOwnedAncestorOfQueried ==
  (last.op = "findAncestorOwnedBy" /\ LastNode \in NodesOnChain) =>
    Claim22_NearestOwnedAncestor

Witness22_RootOwnerNotFound ==
  /\ last.op = "findAncestorOwnedBy"
  /\ LastNode.parentId = LastNode.rootId
  /\ queryRoot(LastNode.rootId).account = last.arg.address
  /\ last.res.node = NoNode

\* the ids above a stored node, up to its root
RECURSIVE AncestorIds(_)
AncestorIds(node) ==
  IF node.parentId = "" THEN {node.rootId}
  ELSE {node.parentId} \cup AncestorIds(queryDelegation(node.parentId))

Below(node) ==
  {n \in NodesOnChain : n.kind = "node" /\ node.id \in AncestorIds(n)}

\* C23: subtreeNodeCount() returns the number of nodes in the branches below
\* the node, the node itself not counted, and 0 for a node without children.
Claim23_SubtreeNodeCount ==
  last.op = "subtreeNodeCount" =>
    /\ last.res = Cardinality(Below(last.arg))
    /\ getChildren(last.arg.id) = {} => last.res = 0

Witness23_GrandchildrenCounted ==
  /\ last.op = "subtreeNodeCount"
  /\ last.res = 3
  /\ \E n \in Below(last.arg) : n.parentId # "" /\ n.parentId # last.arg.id

Witness23_Leaf ==
  /\ last.op = "subtreeNodeCount"
  /\ last.arg.kind = "node"
  /\ last.res = 0

(* ---------- properties of the connection cache (SpecConnection) -------- *)
Returned == {i \in 1..Len(connection.calls) : connection.calls[i].pc = "returned"}
BuiltIn(epoch) ==
  {i \in Returned : connection.calls[i].built /\ connection.calls[i].epoch = epoch}

\* C24: all calls of getConnectionOrConnect() made between two
\* clearCache()/disconnect() calls return the same Blockchain instance, and at
\* most one connection is built for them.
Claim24_OneConnectionPerEpoch ==
  /\ \A i, j \in Returned :
       connection.calls[i].epoch = connection.calls[j].epoch =>
         connection.calls[i].result = connection.calls[j].result
  /\ \A epoch \in 1..MaxEpochs : Cardinality(BuiltIn(epoch)) <= 1

\* C24 for a call made when an instance is cached: it builds nothing and
\* returns the cached instance
Claim24_CachedInstanceReturned ==
  [][(connection.instance # NoInstance /\ getConnectionOrConnect) =>
       /\ connection'.built = connection.built
       /\ connection'.calls[Len(connection'.calls)].result = connection.instance
       /\ connection'.instance = connection.instance]_vars

(* ------------- properties of the verifier (SpecVerifier) --------------- *)
PresentedCreds == {creds[last.arg.content[i]] : i \in 1..Len(last.arg.content)}
PublicPresentationVerified ==
  /\ last.op = "verifyPresentation"
  /\ last.arg.type = MessageBodyType.SUBMIT_CLAIMS_FOR_CTYPES
  /\ last.res.t = "return"

\* C25: verifyPresentation of a public presentation returns verified = true
\* only if every presented credential has valid data and a valid attestation
\* on the ledger, and verified = false comes with an empty list of claims.
Claim25_RejectedPresentationHandsNoClaims ==
  PublicPresentationVerified =>
    /\ last.res.v.verified =>
         \A cred \in PresentedCreds :
           /\ credVerifyData(CredValue(cred)) = True
           /\ attestationVerify(cred.attestation) = Ret("true")
    /\ ~last.res.v.verified => last.res.v.claims = <<>>

\* C25, the part about the ledger: verified = true only if the attestation of
\* every presented credential is on the ledger, owned by its attester and not
\* revoked
Claim25_VerifiedOnlyIfAttested ==
  (PublicPresentationVerified /\ last.res.v.verified) =>
    \A cred \in PresentedCreds : attestationVerify(cred.attestation) = Ret("true")

(* ------- properties of a request changed after commit (SpecIntegrity) -- *)
Verified == last.op = "verifyData"
RootMismatch(r) == r.rootHash # calculateRootHash(r)
OwnerHashInvalid(r) ==
  /\ r.claim.owner # Undefined
  /\ r.claimOwner.hash # hashNonceValue(r.claimOwner.nonce, Str(r.claim.owner))
CTypeHashInvalid(r) ==
  r.ctypeHash.hash # hashNonceValue(r.ctypeHash.nonce, Str(r.claim.cTypeHash))
\* the attribute at position i of the contents is not bound by an entry of
\* the hash tree with matching nonce and hash
Unbound(r, i) ==
  LET key == r.claim.contents[i].k
  IN  \/ ~TreeHas(r.claimHashTree, key)
      \/ TreeAt(r.claimHashTree, key).hash
           # hashNonceValue(TreeAt(r.claimHashTree, key).nonce, r.claim.contents[i].v)
UnboundAttributes(r) == {i \in 1..Len(r.claim.contents) : Unbound(r, i)}
FirstUnbound(r) ==
  CHOOSE i \in UnboundAttributes(r) : \A j \in UnboundAttributes(r) : i <= j
AttributeErrors(key) ==
  {Throw("Property not in claim hash tree", key), InvalidAttributeHash(key)}
LegitimationsInvalid(r) == legitimationsValid(r.legitimations, 1) # True
SignatureInvalid(r) == verifySignature(r) # True

\* C26: verifyData() checks in the order root hash (false), owner hash
\* (throws), schema hash (throws), attributes in the key order of the contents
\* (throws for the first bad one), legitimations (false or their own error),
\* claimer signature; the first failing check decides the outcome and the
\* signature counts only when every other check passed.
Claim26_CheckOrder ==
  Verified =>
    LET r == LastReq
    IN  IF RootMismatch(r) THEN last.res = Ret("false")
        ELSE IF OwnerHashInvalid(r)
        THEN last.res = Throw("Invalid hash for claim owner", "")
        ELSE IF CTypeHashInvalid(r) THEN last.res = Throw("Invalid hash for CTYPE", "")
        ELSE IF UnboundAttributes(r) # {}
        THEN last.res \in AttributeErrors(r.claim.contents[FirstUnbound(r)].k)
        ELSE IF LegitimationsInvalid(r)
        THEN last.res \in legitimationsValid(r.legitimations, 1) \ True
        ELSE last.res \in verifySignature(r)

Witness26_AttributeBeforeSignature ==
  /\ Verified
  /\ ~RootMismatch(LastReq)
  /\ UnboundAttributes(LastReq) # {}
  /\ SignatureInvalid(LastReq)
  /\ last.res \in AttributeErrors(LastReq.claim.contents[FirstUnbound(LastReq)].k)

Witness26_OwnerBeforeSchema ==
  /\ Verified
  /\ OwnerHashInvalid(LastReq)
  /\ CTypeHashInvalid(LastReq)
  /\ last.res = Throw("Invalid hash for claim owner", "")

Witness26_LegitimationBeforeSignature ==
  /\ Verified
  /\ LegitimationsInvalid(LastReq)
  /\ SignatureInvalid(LastReq)
  /\ last.res = Ret("false")

AddedAttributes(r) ==
  {i \in 1..Len(r.claim.contents) : ~TreeHas(r.claimHashTree, r.claim.contents[i].k)}
EarlierChecksPass(r) ==
  /\ ~RootMismatch(r)
  /\ ~OwnerHashInvalid(r)
  /\ ~CTypeHashInvalid(r)

\* C27 as stated: with a key in the contents that has no entry in the hash
\* tree, every check before it passing, verifyData() throws the 'not in claim
\* hash tree' error naming that key, and it never returns true while a key of
\* the contents is not bound by its NonceHash.
Claim27_AddedAttributeNotInTree ==
  Verified =>
    LET r == LastReq
    IN  /\ (/\ EarlierChecksPass(r)
            /\ UnboundAttributes(r) # {}
            /\ FirstUnbound(r) \in AddedAttributes(r)) =>
             last.res = Throw("Property not in claim hash tree",
                              r.claim.contents[FirstUnbound(r)].k)
        /\ UnboundAttributes(r) # {} => last.res # Ret("true")

\* C27: with a key in the contents that has no entry in the hash tree,
\* verifyData() never returns true. When the root, owner and schema checks pass
\* it throws for the first key of the contents that is not bound: the 'not in
\* claim hash tree' error for an added key, unless the key names a property
\* every object inherits, for which it is the 'Invalid hash' error.
Claim27_AddedAttributeDetected ==
  Verified =>
    LET r == LastReq
    IN  /\ UnboundAttributes(r) # {} => last.res # Ret("true")
        /\ (UnboundAttributes(r) # {} /\ EarlierChecksPass(r)) =>
             LET i == FirstUnbound(r)
                 key == r.claim.contents[i].k
             IN  last.res =
                   IF i \in AddedAttributes(r) /\ key \notin ObjectPrototypeKeys
                   THEN Throw("Property not in claim hash tree", key)
                   ELSE InvalidAttributeHash(key)

Witness27_InheritedKeyAdded ==
  /\ Verified
  /\ EarlierChecksPass(LastReq)
  /\ \E i \in AddedAttributes(LastReq) :
       /\ i = FirstUnbound(LastReq)
       /\ LastReq.claim.contents[i].k \in ObjectPrototypeKeys
       /\ last.res = InvalidAttributeHash(LastReq.claim.contents[i].k)

Witness27_NewKeyAdded ==
  /\ Verified
  /\ EarlierChecksPass(LastReq)
  /\ \E i \in AddedAttributes(LastReq) :
       last.res = Throw("Property not in claim hash tree", LastReq.claim.contents[i].k)

(* ------------- redaction that fails part-way (Spec) -------------------- *)
RemovalThrew == last.op = "removeClaimProperties" /\ last.res.t = "throw"
\* position in the key list of the key the call threw for
ThrownAt == CHOOSE i \in 1..Len(last.arg) :
              /\ last.arg[i] = last.res.key
              /\ \A j \in 1..(i - 1) : last.arg[j] # last.res.key
Preceding == {last.arg[j] : j \in 1..(ThrownAt - 1)}
SameEntries(r, q, key) ==
  /\ ContentsHas(r.claim.contents, key) = ContentsHas(q.claim.contents, key)
  /\ ContentsHas(r.claim.contents, key) =>
       ContentsAt(r.claim.contents, key) = ContentsAt(q.claim.contents, key)
  /\ TreeHas(r.claimHashTree, key) = TreeHas(q.claimHashTree, key)
  /\ TreeHas(r.claimHashTree, key) =>
       TreeAt(r.claimHashTree, key) = TreeAt(q.claimHashTree, key)

\* C28: when removeClaimProperties throws for a key absent from the hash
\* tree, every key before it in the list is redacted (no value, no nonce, the
\* hash kept) and stays so, every other key is untouched, and the rootHash is
\* unchanged: nothing is rolled back.
Claim28_NoRollback ==
  RemovalThrew =>
    /\ ~TreeHas(last.pre.claimHashTree, last.res.key)
    /\ \A key \in Preceding :
         /\ ~ContentsHas(LastReq.claim.contents, key)
         /\ TreeHas(last.pre.claimHashTree, key) =>
              /\ TreeAt(LastReq.claimHashTree, key).nonce = NoNonce
              /\ TreeAt(LastReq.claimHashTree, key).hash
                   = TreeAt(last.pre.claimHashTree, key).hash
    /\ \A key \in RemoveKeys \ Preceding : SameEntries(LastReq, last.pre, key)
    /\ LastReq.rootHash = last.pre.rootHash
    /\ calculateRootHash(LastReq) = calculateRootHash(last.pre)

Witness28_RedactedThenThrown ==
  /\ RemovalThrew
  /\ last.arg = <<"name", "weight">>
  /\ ContentsHas(last.pre.claim.contents, "name")
  /\ ~ContentsHas(LastReq.claim.contents, "name")
  /\ Removed(LastReq.claimHashTree, "name")

Witness28_LaterKeyUntouched ==
  /\ RemovalThrew
  /\ last.arg = <<"weight", "age">>
  /\ ContentsHas(LastReq.claim.contents, "age")
  /\ ~Removed(LastReq.claimHashTree, "age")

(* --------------- deserialized requests (SpecIntegrity) ----------------- *)
Deserialized == last.op = "fromRequest"

Witness29_BadSignatureAccepted ==
  /\ Deserialized
  /\ ~RootMismatch(last.pre)
  /\ SignatureInvalid(last.pre)
  /\ last.res = Ret(last.pre)
  /\ verifyData(last.res.v) = {Ret("false")}

Witness29_BadAttributeRefused ==
  /\ Deserialized
  /\ last.arg = {}
  /\ last.res.t = "throw"
  /\ last.res.v = "Invalid hash for property in claim hash tree"

(* ------------- properties of the attester actor (SpecAttester) --------- *)
\* C30: once issueAttestation() has returned a revocation handle, a
\* revokeAttestation() started with that handle by the attester finds the
\* attestation on the ledger and does not fail with ERROR_NOT_FOUND.
Claim30_RevokeAfterIssueFindsAttestation ==
  (/\ last.op = "revokeAttestation"
   /\ last.arg.attester = Attester
   /\ last.arg.revocationHandle \in pool.handles) => last.res # ERROR_NOT_FOUND

\* C30 for a revocation started after the ledger included the attestation
Claim30_RevokeAfterInclusion ==
  (/\ last.op = "revokeAttestation"
   /\ last.arg.attester = Attester
   /\ OnChain(last.arg.revocationHandle.claimHash)) => last.res = Ret("void")

====
